---- MODULE Spec2Model ----
(***************************************************************************)
(* A model of the lowire agent loop.                                       *)
(*                                                                         *)
(* Loop.run is an async function: between two awaits it runs without       *)
(* interruption, and while it is suspended in an await (an event hook, the *)
(* provider completion, callTool) other code may run, in particular        *)
(* abortController.abort().  Every action below is the piece of run that   *)
(* executes when one awaited call settles, up to the next await or the     *)
(* return.  The labels "forTurns" and "forToolCalls" are the heads of the  *)
(* two for loops; run is not suspended there, so abort() cannot happen.    *)
(***************************************************************************)
EXTENDS Integers, Sequences, FiniteSets, TLC

\* ---------------------------------------------------------------- bounds
\* Largest maxTurns option explored.
MaxTurnsBound == 2
\* Largest number of tool-call parts in one assistant message.
MaxToolCallsPerMessage == 2
\* Largest maxToolCalls option explored.
MaxToolCallsBound == 2
\* Largest maxToolCallRetries option explored.
MaxRetriesBound == 1
\* Largest number of vetoes ('disallow') and rejections of hooks and of callTool
\* in one run.
MaxFaults == 1

\* ------------------------------------------------------ program constants
\* An option that was not given.
undefined == 0 - 1000
\* const maxTurns = options.maxTurns || 100
DefaultMaxTurns == 100

systemPrompt ==
  "\\n- You are an autonomous agent designed to complete tasks by interacting with tools.\\n- Perform the user task.\\n- If you see text surrounded by %, it is a secret and you should preserve it as such. It will be replaced with the actual value before the tool call.\\n"

\* Mutant: no hint is left on the message.
NoToolErrorHint == ""

\* assistantMessage.toolError of a message without tool calls.
ToolErrorHint ==
  "Error: tool call is expected in every assistant message. Call the \\\"report_result\\\" tool when the task is complete."

DisallowedCallText == "Tool call is disallowed."
DisallowedResultText == "Tool result is disallowed to be reported."

\* ------------------------------------------------------------- data model
NoResult == [content |-> <<>>, isError |-> FALSE, set |-> FALSE]

ToolResult(texts, isError) == [content |-> texts, isError |-> isError, set |-> TRUE]

TextPart(text) == [type |-> "text", text |-> text]

ToolCallPart(isDone) ==
  [type |-> "tool_call", name |-> "push", id |-> "call", is_done |-> isDone, result |-> NoResult]

UserMessage(content) == [role |-> "user", content |-> content]

AssistantMessage(content, code, message) ==
  [role |-> "assistant", content |-> content,
   stopReason |-> [code |-> code, message |-> message], toolError |-> ""]

NoMessage == AssistantMessage(<<>>, "none", "")

\* assistantMessage.content.filter(part => part.type === 'tool_call')
IsToolCall(part) == part.type = "tool_call"
ToolCallsOf(message) == SelectSeq(message.content, IsToolCall)

\* The position in message.content of the i-th tool-call part.
RECURSIVE PartIndex(_, _, _)
PartIndex(content, i, from) ==
  IF from > Len(content) THEN 0
  ELSE IF IsToolCall(content[from])
       THEN IF i = 1 THEN from ELSE PartIndex(content, i - 1, from + 1)
       ELSE PartIndex(content, i, from + 1)

\* toolCall.result = r, for the i-th tool call of the message
WithResult(message, i, r) ==
  LET p == PartIndex(message.content, i, 1)
  IN [message EXCEPT !.content[p].result = r]

\* ------------------------------------------------------- JSON.stringify
RECURSIVE JoinWith(_, _)
JoinWith(strs, sep) ==
  IF Len(strs) = 0 THEN ""
  ELSE IF Len(strs) = 1 THEN strs[1]
  ELSE strs[1] \o sep \o JoinWith(Tail(strs), sep)

Quote(s) == "\"" \o s \o "\""

JSONText(text) == "{\"type\":\"text\",\"text\":" \o Quote(text) \o "}"

JSONResult(r) ==
  "{\"content\":[" \o JoinWith([i \in 1..Len(r.content) |-> JSONText(r.content[i])], ",") \o "]"
  \o (IF r.isError THEN ",\"isError\":true" ELSE "") \o "}"

JSONPart(part) ==
  IF part.type = "text" THEN JSONText(part.text)
  ELSE "{\"type\":\"tool_call\",\"name\":" \o Quote(part.name)
       \o ",\"arguments\":{\"_is_done\":" \o (IF part.is_done THEN "true" ELSE "false") \o "}"
       \o ",\"id\":" \o Quote(part.id)
       \o (IF part.result.set THEN ",\"result\":" \o JSONResult(part.result) ELSE "")
       \o "}"

JSONMessage(m) ==
  IF m.role = "user"
  THEN "{\"role\":\"user\",\"content\":" \o Quote(m.content) \o "}"
  ELSE "{\"role\":\"assistant\",\"content\":[" \o JoinWith([i \in 1..Len(m.content) |-> JSONPart(m.content[i])], ",") \o "]"
       \o ",\"stopReason\":{\"code\":" \o Quote(m.stopReason.code) \o "}"
       \o (IF m.toolError # "" THEN ",\"toolError\":" \o Quote(m.toolError) ELSE "")
       \o "}"

JSONTool(name) ==
  "{\"name\":" \o Quote(name) \o ",\"inputSchema\":{\"type\":\"object\",\"properties\":{\"_is_done\":{\"type\":\"boolean\"}},\"required\":[\"_is_done\"]}}"

JSONStringify(c) ==
  "{\"systemPrompt\":" \o Quote(c.systemPrompt)
  \o ",\"messages\":[" \o JoinWith([i \in 1..Len(c.messages) |-> JSONMessage(c.messages[i])], ",") \o "]"
  \o ",\"tools\":[" \o JoinWith([i \in 1..Len(c.tools) |-> JSONTool(c.tools[i])], ",") \o "]}"

\* Math.floor(JSON.stringify(summarizedConversation).length / 4)
TokenEstimate(c) == Len(JSONStringify(c)) \div 4

\* ------------------------------------------------------------ summarizer
\* _toolResultHistory: the lines a tool result adds to the recap.
ToolResultHistory(r) ==
  IF r.isError THEN <<"- error: " \o JoinWith(r.content, "\\n")>> ELSE <<>>

PartSummary(part) ==
  IF part.type = "text" THEN <<"[assistant] " \o part.text>>
  ELSE <<"[tool_call] " \o part.name \o "({\\\"_is_done\\\":"
           \o (IF part.is_done THEN "true" ELSE "false") \o "})">>
       \o (IF part.result.set THEN <<"[tool_result]">> \o ToolResultHistory(part.result) ELSE <<>>)

RECURSIVE PartsSummary(_)
PartsSummary(content) ==
  IF Len(content) = 0 THEN <<>> ELSE PartSummary(content[1]) \o PartsSummary(Tail(content))

\* The "### Turn N" block of one assistant message that is not the last.
TurnSummary(message, turn) ==
  (IF turn = 0 THEN <<"", "## History">> ELSE <<>>)
  \o <<"", "### Turn " \o ToString(turn + 1)>>
  \o PartsSummary(message.content)
  \o (IF message.toolError # "" THEN <<"[error] " \o message.toolError>> ELSE <<>>)

\* Mutant: the loop bound off by one, the last assistant message is collapsed
\* into the history as well.
RECURSIVE TurnsSummaryIncludingLast(_, _)
TurnsSummaryIncludingLast(assistantMessages, turn) ==
  IF turn >= Len(assistantMessages) THEN <<>>
  ELSE TurnSummary(assistantMessages[turn + 1], turn)
       \o TurnsSummaryIncludingLast(assistantMessages, turn + 1)

\* for (let turn = 0; turn < assistantMessages.length - 1; ++turn)
RECURSIVE TurnsSummary(_, _)
TurnsSummary(assistantMessages, turn) ==
  IF turn >= Len(assistantMessages) - 1 THEN <<>>
  ELSE TurnSummary(assistantMessages[turn + 1], turn) \o TurnsSummary(assistantMessages, turn + 1)

IsAssistant(m) == m.role = "assistant"

\* Mutant: the conversation is sent as it is.
NoSummary(task, c) == c

\* Loop._summarizeConversation: a recap user message plus the last
\* assistant message, if any.
SummarizeConversation(task, c) ==
  LET assistantMessages == SelectSeq(c.messages, IsAssistant)
      summary == <<"## Task", task>> \o TurnsSummary(assistantMessages, 0)
      lastMessage == IF Len(assistantMessages) = 0 THEN <<>>
                     ELSE <<assistantMessages[Len(assistantMessages)]>>
  IN [c EXCEPT !.messages = <<UserMessage(JoinWith(summary, "\\n"))>> \o lastMessage]

\* ------------------------------------------------------------------ state
VARIABLES
  options,                 \* LoopOptions of this run
  task,                    \* the task string
  pc,                      \* where run is suspended, or its loop head
  turns,                   \* the turn loop counter
  budget,                  \* {tokens, toolCalls, toolCallRetries}
  totalUsage,              \* {input, output}
  conversation,            \* {systemPrompt, messages, tools}
  summarizedConversation,  \* the view of this turn
  assistantMessage,        \* the provider's message of this turn
  toolIdx,                 \* index of the current tool call in toolCalls
  result,                  \* what callTool returned for the current tool call
  caught,                  \* message of the error caught by the try block
  aborted,                 \* abortController.signal.aborted
  ret,                     \* the envelope run returned
  calls,                   \* how often each hook, the provider and callTool were invoked
  abortAt,                 \* the await during which abort() was called
  lastReturned,            \* the awaited call that settled in the last step
  inFlight,                \* tool calls whose callTool has not settled
  erroredTurns,            \* turns that ended with an errored tool result
  onlyErrors,              \* every tool call so far got an isError result from callTool
  faults,                  \* vetoes and rejections so far
  reportedUsage,           \* sum of the usages the completions of this run reported
  caches,                  \* {input, output}: the replay caches
  cachePc,                 \* where CachingProvider.complete is suspended
  key,                     \* fingerprint of the completion in progress
  completion,              \* what complete returned last
  providerCalls,           \* calls of the live provider
  recorded,                \* envelope and output cache of the recorded run
  callToolFn               \* the deterministic tool callback of a replayed run

loopAndCacheVars ==
  <<options, task, pc, turns, budget, totalUsage, conversation,
    summarizedConversation, assistantMessage, toolIdx, result,
    caught, aborted, ret, calls, abortAt, lastReturned, inFlight,
    erroredTurns, onlyErrors, faults, reportedUsage, caches, cachePc, key,
    completion, providerCalls, recorded, callToolFn>>

\* fetchWithTimeout(url, options) and the objects it works with.
VARIABLES
  fetchPc,                 \* where fetchWithTimeout is: idle, fetch, settled, returned, thrown
  fetchOptions,            \* {timeout, signal}: signal tells whether options.signal is given
  signal,                  \* the caller's AbortSignal: {aborted, reason, listeners}
  controller,              \* controller.signal.aborted of the AbortController of the call
  timeoutId,               \* the timer: undefined, pending, fired or cleared
  fetchPromise,            \* how the promise of fetch settled
  fetchOutcome             \* what fetchWithTimeout returned or threw

fetchVars == <<fetchPc, fetchOptions, signal, controller, timeoutId, fetchPromise,
               fetchOutcome>>

\* Provider.complete(conversation, options) of the adapters.
VARIABLES
  adapter,                 \* the adapter whose complete is called
  adapterPc,               \* where complete is: idle, create, text, json, done
  response,                \* {ok, status}: the Response fetch resolved with
  responseBody,            \* what response.json() settled with
  adapterOutcome           \* what complete resolved or rejected with

adapterVars == <<adapter, adapterPc, response, responseBody, adapterOutcome>>

\* The tool objects of the caller and of the conversation.  Objects have
\* identity: the heap maps the addresses of tools, schemas, property maps and
\* arrays to what they hold, and 0 stands for undefined.
VARIABLES
  heap,                    \* {tools, schemas, props, arrays}
  callerTools,             \* options.tools: addresses of tools
  allTools,                \* conversation.tools: addresses of tools
  wrapPc,                  \* idle, or running between the wrapping and the return
  snapshot,                \* the heap when run was called
  wrappedTools,            \* the tools wrapToolWithIsDone returned
  runs                     \* runs so far

wrapVars == <<heap, callerTools, allTools, wrapPc, snapshot, wrappedTools, runs>>

\* An assistant message of the Google adapter on its way through the
\* conversation.
VARIABLES
  geminiParts,             \* candidate.content.parts of the response
  echoMessage,             \* the assistant message, as it is in the conversation
  geminiContents,          \* what toGeminiContent made of the message last
  echoPc                   \* idle, or conversation once the message is in it

echoVars == <<geminiParts, echoMessage, geminiContents, echoPc>>

\* What run hands to cachedComplete.
VARIABLES
  completeMaxTokens        \* options.maxTokens of the completion requested last

requestVars == <<completeMaxTokens>>

\* Calls of CachingProvider.complete that are in flight on the same caches.
VARIABLES
  overlap                  \* per call: {pc, key, completion}; pc is idle, provider or returned

overlapVars == <<overlap>>

\* The state of the components that are modelled apart from Loop.run.
sideComponentVars == <<fetchVars, adapterVars, wrapVars, echoVars, overlapVars>>

\* What the steps of run other than the request of a completion leave alone.
sideVars == <<sideComponentVars, requestVars>>

vars == <<loopAndCacheVars, sideVars>>

\* The state of the replay cache and of the record-and-replay harness.
cacheVars == <<caches, cachePc, key, completion, providerCalls, recorded, callToolFn>>

Callees == {"onBeforeTurn", "complete", "onAfterTurn", "onBeforeToolCall",
            "callTool", "onAfterToolCall", "onToolCallError"}

\* The awaits of run.
Awaits == Callees

NotReturned == [status |-> "none", error |-> "", result |-> NoResult,
                usage |-> [input |-> 0, output |-> 0], turns |-> 0]

\* const maxTurns = options.maxTurns || 100
maxTurns == IF options.maxTurns = undefined \/ options.maxTurns = 0
            THEN DefaultMaxTurns ELSE options.maxTurns

\* const toolCalls = assistantMessage.content.filter(...)
toolCalls == ToolCallsOf(assistantMessage)

\* ---------------------------------------------------------------- inputs
Tasks == {"Run numbers 1, 2"}

\* The conversation run starts with.
InitialConversation(t) ==
  [systemPrompt |-> systemPrompt, messages |-> <<UserMessage(t)>>, tools |-> <<"push">>]

\* The token estimate of the first turn without summarization: a maxTokens
\* equal to it is the boundary of the estimate check.
InitialEstimate == TokenEstimate(InitialConversation("Run numbers 1, 2"))

OptionSets ==
  [maxTurns : 1..MaxTurnsBound,
   maxTokens : {undefined, 0, InitialEstimate, 130, 300, 600},
   maxToolCalls : {undefined} \cup 0..MaxToolCallsBound,
   maxToolCallRetries : {undefined} \cup 0..MaxRetriesBound,
   summarize : BOOLEAN]

RECURSIVE ToolCallSeqs(_)
ToolCallSeqs(n) ==
  IF n = 0 THEN {<<>>}
  ELSE {s \o <<ToolCallPart(d)>> : s \in ToolCallSeqs(n - 1), d \in BOOLEAN}

\* What the provider may answer: a text part followed by zero or more tool
\* calls, or a message that carries an error or max_tokens stop reason.
ProviderMessages ==
  {AssistantMessage(<<TextPart("ok")>> \o s, "ok", "") :
     s \in UNION {ToolCallSeqs(n) : n \in 0..MaxToolCallsPerMessage}}
  \cup {AssistantMessage(<<>>, "error", "API error: 500"),
        AssistantMessage(<<TextPart("Hello")>>, "max_tokens", "")}

\* The usage the provider reports with a message: nothing with an error (the
\* adapters report zero usage then), otherwise the prompt and ten tokens for
\* each content part.
UsageOf(message) ==
  IF message.stopReason.code = "error" THEN [input |-> 0, output |-> 0]
  ELSE [input |-> 120, output |-> 10 * Len(message.content)]

Usages == {UsageOf(m) : m \in ProviderMessages}

\* What callTool may resolve to.
CallToolResults ==
  {ToolResult(<<>>, FALSE),
   ToolResult(<<"Could not push value at this time, please try again.">>, TRUE)}

\* ---------------------------------------------------------- replay cache
\* types.ReplayCache: a mapping from fingerprint to what complete returned.
EmptyCache == [k \in {} |-> 0]

\* What complete resolves with: {result, usage}.
Completion(message) == [result |-> message, usage |-> UsageOf(message)]

NoCompletion == [result |-> NoMessage, usage |-> [input |-> 0, output |-> 0]]

NotRecorded == [done |-> FALSE, ret |-> NotReturned, cache |-> EmptyCache]

\* calculateSha1(JSON.stringify(conversation)).  The digest is represented by
\* the text it is computed from, so two conversations have the same
\* fingerprint exactly when they serialize to the same text.
conversationHash(c) == "sha1:" \o JSONStringify(c)

\* cache[k] is set
Has(cache, k) == k \in DOMAIN cache

\* cache[k] = v
Put(cache, k, v) == [x \in DOMAIN cache \cup {k} |-> IF x = k THEN v ELSE cache[x]]

\* Mutant: the entry is moved from the input cache to the output cache.
MoveToOutput(cs, k) ==
  [input |-> [x \in DOMAIN cs.input \ {k} |-> cs.input[x]],
   output |-> Put(cs.output, k, cs.input[k])]

\* Mutant: the entry found in the input cache is returned without copying it.
NoCopyToOutput(cs, k) == cs

\* this._caches.after[key] = this._caches.before[key]
CopyToOutput(cs, k) == [cs EXCEPT !.output = Put(@, k, cs.input[k])]

\* Mutant: the provider's result is returned without storing it.
StoreNothing(cs, k, r) == cs

\* this._caches.after[key] = result
StoreResult(cs, k, r) == [cs EXCEPT !.output = Put(@, k, r)]

\* Which branch of complete the fingerprint k takes.
Lookup(cs, k) ==
  IF Has(cs.input, k) THEN "input"
  ELSE IF Has(cs.output, k) THEN "output"
  ELSE "provider"

\* ------------------------------------------------------- fetchWithTimeout
\* The error fetch rejects with when its signal aborts, and when the network
\* fails.
AbortError == "AbortError: This operation was aborted"
NetworkError == "TypeError: fetch failed"

NoOutcome == [kind |-> "none", value |-> ""]

\* Before fetchWithTimeout is called: the caller's signal exists and nobody
\* listens to it.
FetchIdle ==
  /\ fetchPc = "idle"
  /\ fetchOptions = [timeout |-> undefined, signal |-> FALSE]
  /\ signal = [aborted |-> FALSE, reason |-> "", listeners |-> {}]
  /\ controller = [aborted |-> FALSE]
  /\ timeoutId = "undefined"
  /\ fetchPromise = "none"
  /\ fetchOutcome = NoOutcome

\* ------------------------------------------------------ provider adapters
NoResponse == [ok |-> FALSE, status |-> 0]

NoBody == [json |-> "none", candidates |-> <<>>, usage |-> [input |-> 0, output |-> 0]]

NotCompleted == [kind |-> "none", error |-> "", result |-> NoMessage,
                 usage |-> [input |-> 0, output |-> 0]]

\* Before complete is called.
AdapterIdle ==
  /\ adapter = "none"
  /\ adapterPc = "idle"
  /\ response = NoResponse
  /\ responseBody = NoBody
  /\ adapterOutcome = NotCompleted

\* ---------------------------------------------------------- tool wrapping
EmptyHeap == [tools |-> <<>>, schemas |-> <<>>, props |-> <<>>, arrays |-> <<>>]

\* No tool was defined and run was not called.
WrapIdle ==
  /\ heap = EmptyHeap
  /\ callerTools = <<>>
  /\ allTools = <<>>
  /\ wrapPc = "idle"
  /\ snapshot = EmptyHeap
  /\ wrappedTools = {}
  /\ runs = 0

\* ------------------------------------------------------ Google echo fields
\* Before the Google adapter answered.
EchoIdle ==
  /\ geminiParts = <<>>
  /\ echoMessage = NoMessage
  /\ geminiContents = <<>>
  /\ echoPc = "idle"

\* ------------------------------------------- overlapping calls of complete
\* Largest number of calls of complete in flight at once.
MaxOverlap == 2

OverlapCalls == 1..MaxOverlap

\* No call of complete was made.
OverlapIdle ==
  overlap = [i \in OverlapCalls |-> [pc |-> "idle", key |-> "", completion |-> NoCompletion]]

\* ------------------------------------------------------------------ Init
\* The state before run is called, for the options chosen.
InitState ==
  /\ completeMaxTokens = undefined
  /\ OverlapIdle
  /\ FetchIdle
  /\ AdapterIdle
  /\ WrapIdle
  /\ EchoIdle
  /\ task \in Tasks
  /\ pc = "idle"
  /\ turns = 0
  /\ budget = [tokens |-> undefined, toolCalls |-> undefined, toolCallRetries |-> undefined]
  /\ totalUsage = [input |-> 0, output |-> 0]
  /\ conversation = [systemPrompt |-> systemPrompt, messages |-> <<>>, tools |-> <<>>]
  /\ summarizedConversation = conversation
  /\ assistantMessage = NoMessage
  /\ toolIdx = 0
  /\ result = NoResult
  /\ caught = ""
  /\ aborted = FALSE
  /\ ret = NotReturned
  /\ calls = [c \in Callees |-> 0]
  /\ abortAt = "none"
  /\ lastReturned = "none"
  /\ inFlight = {}
  /\ erroredTurns = 0
  /\ onlyErrors = TRUE
  /\ faults = 0
  /\ reportedUsage = [input |-> 0, output |-> 0]
  /\ caches = [input |-> EmptyCache, output |-> EmptyCache]
  /\ cachePc = "idle"
  /\ key = ""
  /\ completion = NoCompletion
  /\ providerCalls = 0
  /\ recorded = NotRecorded
  /\ callToolFn = [isDone \in BOOLEAN |-> NoResult]

Init ==
  /\ options \in OptionSets
  /\ InitState

\* --------------------------------------------------------------- helpers
\* return {status, error, result, usage: totalUsage, turns}
Return(status, error, res, usage, t) ==
  /\ ret' = [status |-> status, error |-> error, result |-> res, usage |-> usage, turns |-> t]
  /\ pc' = "done"

\* Calling a hook, the provider or callTool and suspending in its await.
Invoke(callee) ==
  /\ calls' = [calls EXCEPT ![callee] = @ + 1]
  /\ pc' = callee

\* Mutant: the message pushed to conversation.messages is a copy, and the
\* result is attached to the message of the turn only.
AttachResultToCopy(r) ==
  /\ assistantMessage' = WithResult(assistantMessage, toolIdx, r)
  /\ conversation' = conversation

\* toolCall.result = r: the tool call is a part of assistantMessage, which is
\* the very object that was pushed to conversation.messages.
AttachResult(r) ==
  /\ assistantMessage' = WithResult(assistantMessage, toolIdx, r)
  /\ conversation' = [conversation EXCEPT !.messages[Len(conversation.messages)] =
                        WithResult(assistantMessage, toolIdx, r)]

ErrorResult(text) == ToolResult(<<text>>, TRUE)

ToolErrorText(name, message) ==
  "Error while executing tool \\\"" \o name \o "\\\": " \o message
  \o "\\n\\nPlease try to recover and complete the task."

MaxAttemptsError == "Failed to perform step, max attempts reached"
BudgetExhaustedError(n) == "Budget tokens " \o ToString(n) \o " exhausted"
EstimateError(n, b) ==
  "Input token estimate " \o ToString(n) \o " exceeds budget " \o ToString(b)
MaxTokensError == "Max tokens exhausted"
OptionText(n) == IF n = undefined THEN "undefined" ELSE ToString(n)
MaxToolCallsError(n) ==
  "Failed to perform step, max tool calls (" \o OptionText(n) \o ") reached"
RetriesError(n) ==
  "Failed to perform action after " \o OptionText(n) \o " tool call retries"

\* ------------------------------------------------------------ conditions
\* Mutant: the loop condition off by one (turns <= maxTurns).
TurnsRemainOffByOne(t) == t <= maxTurns

\* for (let turns = 0; turns < maxTurns; ++turns)
TurnsRemain(t) == t < maxTurns

\* options.maxTokens && budget.tokens !== undefined && budget.tokens <= 0
TokensExhausted(b) ==
  /\ options.maxTokens # undefined /\ options.maxTokens # 0
  /\ b.tokens # undefined /\ b.tokens <= 0

\* Mutant: the estimate compared with the configured maxTokens instead of
\* what is left of the budget.
EstimateExceedsConfigured(tokenEstimate, b) ==
  b.tokens # undefined /\ tokenEstimate >= options.maxTokens

\* budget.tokens !== undefined && tokenEstimate >= budget.tokens
EstimateExceeds(tokenEstimate, b) == b.tokens # undefined /\ tokenEstimate >= b.tokens

\* Mutant: no cancellation check after onBeforeToolCall.
CancelledExceptBeforeToolCall(callee) == aborted /\ callee # "onBeforeToolCall"

\* abortController?.signal.aborted, read after the await of `callee`
Cancelled(callee) == aborted

\* Mutant: the max_tokens stop reason is not checked.
StopsRunOnErrorOnly(message) == message.stopReason.code = "error"

\* The stop reasons that end the run.
StopsRun(message) == message.stopReason.code \in {"error", "max_tokens"}

\* budget.toolCalls !== undefined && --budget.toolCalls < 0
ChargeToolCall(b) == IF b.toolCalls # undefined THEN [b EXCEPT !.toolCalls = @ - 1] ELSE b
\* Mutant: post-decrement, budget.toolCalls-- < 0.
ToolCallsExceededPostDecrement(b) == b.toolCalls # undefined /\ b.toolCalls < 0

ToolCallsExceeded(b) == b.toolCalls # undefined /\ ChargeToolCall(b).toolCalls < 0

\* Mutant: post-decrement, budget.toolCallRetries-- < 0.
RetriesExceededPostDecrement(retries) == retries < 0

\* hasErrors && budget.toolCallRetries !== undefined && --budget.toolCallRetries < 0
RetriesExceeded(retries) == retries - 1 < 0

\* Mutant: the done signal taken from _is_done alone.
DoneSignalIgnoringError(toolCall, r) == toolCall.is_done

\* args._is_done && !result.isError
DoneSignal(toolCall, r) == toolCall.is_done /\ ~r.isError

\* Mutant: a vetoed call is skipped without a result.
DisallowedCallNoResult == NoResult

\* The result attached when onBeforeToolCall vetoes the call.
DisallowedCallResult == ErrorResult(DisallowedCallText)

\* Mutant: the vetoed result is attached all the same.
DisallowedResultLeaked == result

\* The result attached when onAfterToolCall vetoes the result.
DisallowedResultResult == ErrorResult(DisallowedResultText)

\* for (const toolCall of toolCalls): the tool call after the i-th.
NextToolCall(i) == i + 1

\* Mutant: the completion is requested without awaiting onBeforeTurn.
FirstAwaitOfTurnIsComplete == "complete"

\* The first await of a turn: `await options.onBeforeTurn?.(...)`.
FirstAwaitOfTurn == "onBeforeTurn"

\* Mutant: the tool calls after a failed one are skipped.
SkipRemainingToolCalls(i) == Len(toolCalls) + 1

\* The catch block falls through to the next iteration of the tool-call loop.
AfterFailedToolCall(i) == NextToolCall(i)

\* Mutant: a veto of onBeforeToolCall ends the dispatch of the message.
DisallowEndsDispatch(i) == Len(toolCalls) + 1

\* `continue` after the veto of onBeforeToolCall.
AfterDisallowedCall(i) == NextToolCall(i)

\* ---------------------------------------------------------------- actions
\* run(task, runOptions) up to the turn loop.
Run ==
  /\ pc = "idle"
  /\ conversation' = InitialConversation(task)
  /\ budget' = [tokens |-> options.maxTokens,
                toolCalls |-> options.maxToolCalls,
                toolCallRetries |-> options.maxToolCallRetries]
  /\ totalUsage' = [input |-> 0, output |-> 0]
  /\ turns' = 0
  /\ pc' = "forTurns"
  /\ UNCHANGED <<sideVars, cacheVars, reportedUsage, options, task, summarizedConversation, assistantMessage, toolIdx,
                 result, caught, aborted, ret, calls, abortAt, lastReturned,
                 inFlight, erroredTurns, onlyErrors, faults>>

\* The head of the turn loop up to `await options.onBeforeTurn?.(...)`.
ForTurns ==
  /\ pc = "forTurns"
  /\ lastReturned' = "none"
  /\ IF ~TurnsRemain(turns)
     THEN /\ Return("error", MaxAttemptsError, NoResult, totalUsage, maxTurns)
          /\ UNCHANGED <<summarizedConversation, calls>>
     ELSE IF TokensExhausted(budget)
     THEN /\ Return("error", BudgetExhaustedError(options.maxTokens), NoResult, totalUsage, turns)
          /\ UNCHANGED <<summarizedConversation, calls>>
     ELSE /\ summarizedConversation' =
               IF options.summarize THEN SummarizeConversation(task, conversation)
               ELSE conversation
          /\ Invoke(FirstAwaitOfTurn)
          /\ UNCHANGED ret
  /\ UNCHANGED <<sideVars, cacheVars, reportedUsage, options, task, turns, budget, totalUsage, conversation, assistantMessage,
                 toolIdx, result, caught, aborted, abortAt, inFlight, erroredTurns,
                 onlyErrors, faults>>

\* Mutant: the operands of the subtraction swapped.
CompletionMaxTokensSwapped(b, tokenEstimate) ==
  IF b.tokens # undefined THEN tokenEstimate - b.tokens ELSE undefined

\* maxTokens: budget.tokens !== undefined ? budget.tokens - tokenEstimate : undefined
CompletionMaxTokens(b, tokenEstimate) ==
  IF b.tokens # undefined THEN b.tokens - tokenEstimate ELSE undefined

\* onBeforeTurn resolved: cancellation check, token estimate, cachedComplete.
OnBeforeTurnReturns ==
  /\ pc = "onBeforeTurn"
  /\ lastReturned' = "onBeforeTurn"
  /\ LET tokenEstimate == TokenEstimate(summarizedConversation) IN
     IF Cancelled(pc)
     THEN /\ Return("break", "", NoResult, totalUsage, turns)
          /\ UNCHANGED <<calls, completeMaxTokens>>
     ELSE IF EstimateExceeds(tokenEstimate, budget)
     THEN /\ Return("error", EstimateError(tokenEstimate, budget.tokens), NoResult, totalUsage, turns)
          /\ UNCHANGED <<calls, completeMaxTokens>>
     ELSE /\ completeMaxTokens' = CompletionMaxTokens(budget, tokenEstimate)
          /\ Invoke("complete")
          /\ UNCHANGED ret
  /\ UNCHANGED <<sideComponentVars, cacheVars, reportedUsage, options, task, turns, budget, totalUsage, conversation,
                 summarizedConversation, assistantMessage, toolIdx, result, caught,
                 aborted, abortAt, inFlight, erroredTurns, onlyErrors, faults>>

\* A hook resolving with status; a veto counts against MaxFaults.
Veto(status) ==
  /\ status = "disallow" => faults < MaxFaults
  /\ faults' = IF status = "disallow" THEN faults + 1 ELSE faults

\* A hook outside the try block rejected: run rejects with it.
HookThrows(hook) ==
  /\ pc = hook
  /\ faults < MaxFaults
  /\ faults' = faults + 1
  /\ pc' = "thrown"
  /\ lastReturned' = "none"
  /\ UNCHANGED <<sideVars, cacheVars, reportedUsage, options, task, turns, budget, totalUsage, conversation,
                 summarizedConversation, assistantMessage, toolIdx, result, caught,
                 aborted, ret, calls, abortAt, inFlight, erroredTurns, onlyErrors>>

OnBeforeTurnThrows == HookThrows("onBeforeTurn")

\* Mutant: the budget is charged with the input tokens only.
SpendTokensInputOnly(b, usage) ==
  IF b.tokens # undefined THEN [b EXCEPT !.tokens = @ - usage.input] ELSE b

\* if (budget.tokens !== undefined) budget.tokens -= usage.input + usage.output
SpendTokens(b, usage) ==
  IF b.tokens # undefined THEN [b EXCEPT !.tokens = @ - (usage.input + usage.output)] ELSE b

\* What run does when `await cachedComplete(...)` resolves with {result:
\* message, usage}: stop reason checks, usage accounting,
\* `await options.onAfterTurn?.(...)`.
CompleteStep(message, usage) ==
  /\ pc = "complete"
  /\ lastReturned' = "complete"
  /\ assistantMessage' = message
  /\ reportedUsage' = [input |-> reportedUsage.input + usage.input,
                       output |-> reportedUsage.output + usage.output]
  /\ IF StopsRun(message) /\ message.stopReason.code = "error"
     THEN /\ Return("error", message.stopReason.message, NoResult, totalUsage, turns)
          /\ UNCHANGED <<totalUsage, budget, calls>>
     ELSE IF StopsRun(message)
     THEN /\ Return("error", MaxTokensError, NoResult, totalUsage, turns)
          /\ UNCHANGED <<totalUsage, budget, calls>>
     ELSE /\ totalUsage' = [input |-> totalUsage.input + usage.input,
                            output |-> totalUsage.output + usage.output]
          /\ budget' = SpendTokens(budget, usage)
          /\ Invoke("onAfterTurn")
          /\ UNCHANGED ret
  /\ UNCHANGED <<sideVars, options, task, turns, conversation, summarizedConversation, toolIdx,
                 result, caught, aborted, abortAt, inFlight, erroredTurns, onlyErrors, faults>>

\* A run without options.cache: cachedComplete resolves with what the live
\* provider answered.
CompleteReturns(message, usage) ==
  /\ CompleteStep(message, usage)
  /\ UNCHANGED cacheVars

\* onAfterTurn resolved: cancellation check, push, empty-tool-calls recovery.
OnAfterTurnReturns ==
  /\ pc = "onAfterTurn"
  /\ lastReturned' = "onAfterTurn"
  /\ IF Cancelled(pc)
     THEN /\ Return("break", "", NoResult, totalUsage, turns)
          /\ UNCHANGED <<conversation, assistantMessage, turns, toolIdx>>
     ELSE IF Len(toolCalls) = 0
     THEN /\ assistantMessage' = [assistantMessage EXCEPT !.toolError = ToolErrorHint]
          /\ conversation' = [conversation EXCEPT !.messages =
                                Append(@, [assistantMessage EXCEPT !.toolError = ToolErrorHint])]
          /\ turns' = turns + 1
          /\ pc' = "forTurns"
          /\ UNCHANGED <<ret, toolIdx>>
     ELSE /\ conversation' = [conversation EXCEPT !.messages = Append(@, assistantMessage)]
          /\ toolIdx' = 1
          /\ pc' = "forToolCalls"
          /\ UNCHANGED <<ret, assistantMessage, turns>>
  /\ UNCHANGED <<sideVars, cacheVars, reportedUsage, options, task, budget, totalUsage, summarizedConversation, result,
                 caught, aborted, calls, abortAt, inFlight, erroredTurns, onlyErrors, faults>>

OnAfterTurnThrows == HookThrows("onAfterTurn")

\* toolCalls.some(toolCall => toolCall.result?.isError)
HasErrors(calls_) == \E i \in 1..Len(calls_) : calls_[i].result.set /\ calls_[i].result.isError

\* The head of `for (const toolCall of toolCalls)`: either the tool-call
\* budget check and `await options.onBeforeToolCall?.(...)`, or, after the
\* last tool call, the retry accounting that ends the turn.
ForToolCalls ==
  /\ pc = "forToolCalls"
  /\ lastReturned' = "none"
  /\ IF toolIdx > Len(toolCalls)
     THEN LET hasErrors == HasErrors(toolCalls)
              reset == IF ~hasErrors THEN options.maxToolCallRetries
                       ELSE budget.toolCallRetries
              charged == hasErrors /\ reset # undefined
              retries == IF charged THEN reset - 1 ELSE reset
              exceeded == charged /\ RetriesExceeded(reset)
          IN /\ budget' = [budget EXCEPT !.toolCallRetries = retries]
             /\ erroredTurns' = IF hasErrors THEN erroredTurns + 1 ELSE erroredTurns
             /\ IF exceeded
                THEN /\ Return("error", RetriesError(options.maxToolCallRetries), NoResult,
                               totalUsage, turns)
                     /\ UNCHANGED turns
                ELSE /\ turns' = turns + 1
                     /\ pc' = "forTurns"
                     /\ UNCHANGED ret
             /\ UNCHANGED calls
     ELSE /\ budget' = ChargeToolCall(budget)
          /\ IF ToolCallsExceeded(budget)
             THEN /\ Return("error", MaxToolCallsError(options.maxToolCalls), NoResult,
                            totalUsage, turns)
                  /\ UNCHANGED calls
             ELSE /\ Invoke("onBeforeToolCall")
                  /\ UNCHANGED ret
          /\ UNCHANGED <<turns, erroredTurns>>
  /\ UNCHANGED <<sideVars, cacheVars, reportedUsage, options, task, totalUsage, conversation, summarizedConversation,
                 assistantMessage, toolIdx, result, caught, aborted, abortAt, inFlight,
                 onlyErrors, faults>>

\* Mutant: callTool is started but not awaited, the loop goes on to the next
\* tool call at once.
OnBeforeToolCallReturnsNoAwait(status) ==
  /\ pc = "onBeforeToolCall"
  /\ Veto(status)
  /\ lastReturned' = "onBeforeToolCall"
  /\ IF Cancelled(pc)
     THEN /\ Return("break", "", NoResult, totalUsage, turns)
          /\ UNCHANGED <<conversation, assistantMessage, toolIdx, calls, inFlight>>
     ELSE IF status = "disallow"
     THEN /\ AttachResult(DisallowedCallResult)
          /\ toolIdx' = NextToolCall(toolIdx)
          /\ pc' = "forToolCalls"
          /\ UNCHANGED <<ret, calls, inFlight>>
     ELSE /\ calls' = [calls EXCEPT !["callTool"] = @ + 1]
          /\ inFlight' = inFlight \cup {toolIdx}
          /\ toolIdx' = NextToolCall(toolIdx)
          /\ pc' = "forToolCalls"
          /\ UNCHANGED <<ret, conversation, assistantMessage>>
  /\ UNCHANGED <<sideVars, cacheVars, reportedUsage, options, task, turns, budget, totalUsage, summarizedConversation, result,
                 caught, aborted, abortAt, erroredTurns, onlyErrors>>

\* onBeforeToolCall resolved with status: cancellation check, veto, callTool.
OnBeforeToolCallReturns(status) ==
  /\ pc = "onBeforeToolCall"
  /\ Veto(status)
  /\ lastReturned' = "onBeforeToolCall"
  /\ IF Cancelled(pc)
     THEN /\ Return("break", "", NoResult, totalUsage, turns)
          /\ UNCHANGED <<conversation, assistantMessage, toolIdx, calls, inFlight>>
     ELSE IF status = "disallow"
     THEN /\ AttachResult(DisallowedCallResult)
          /\ toolIdx' = AfterDisallowedCall(toolIdx)
          /\ pc' = "forToolCalls"
          /\ UNCHANGED <<ret, calls, inFlight>>
     ELSE /\ Invoke("callTool")
          /\ inFlight' = inFlight \cup {toolIdx}
          /\ UNCHANGED <<ret, conversation, assistantMessage, toolIdx>>
  /\ UNCHANGED <<sideVars, cacheVars, reportedUsage, options, task, turns, budget, totalUsage, summarizedConversation, result,
                 caught, aborted, abortAt, erroredTurns, onlyErrors>>

OnBeforeToolCallThrows == HookThrows("onBeforeToolCall")

\* callTool resolved with r: `await options.onAfterToolCall?.(...)`.
CallToolReturns(r) ==
  /\ pc = "callTool"
  /\ lastReturned' = "callTool"
  /\ result' = r
  /\ inFlight' = inFlight \ {toolIdx}
  /\ onlyErrors' = (onlyErrors /\ r.isError)
  /\ Invoke("onAfterToolCall")
  /\ UNCHANGED <<sideVars, cacheVars, reportedUsage, options, task, turns, budget, totalUsage, conversation,
                 summarizedConversation, assistantMessage, toolIdx, caught, aborted, ret,
                 abortAt, erroredTurns, faults>>

\* callTool rejected: the catch block, `await options.onToolCallError?.(...)`.
CallToolThrows ==
  /\ pc = "callTool"
  /\ faults < MaxFaults
  /\ faults' = faults + 1
  /\ lastReturned' = "none"
  /\ caught' = "tool failed"
  /\ inFlight' = inFlight \ {toolIdx}
  /\ onlyErrors' = FALSE
  /\ Invoke("onToolCallError")
  /\ UNCHANGED <<sideVars, cacheVars, reportedUsage, options, task, turns, budget, totalUsage, conversation,
                 summarizedConversation, assistantMessage, toolIdx, result, aborted, ret,
                 abortAt, erroredTurns>>

\* onAfterToolCall resolved with status: cancellation check, veto, attaching
\* the result, done signal.
OnAfterToolCallReturns(status) ==
  /\ pc = "onAfterToolCall"
  /\ Veto(status)
  /\ lastReturned' = "onAfterToolCall"
  /\ IF Cancelled(pc)
     THEN /\ Return("break", "", NoResult, totalUsage, turns)
          /\ UNCHANGED <<conversation, assistantMessage, toolIdx>>
     ELSE IF status = "disallow"
     THEN /\ AttachResult(DisallowedResultResult)
          /\ toolIdx' = NextToolCall(toolIdx)
          /\ pc' = "forToolCalls"
          /\ UNCHANGED ret
     ELSE /\ AttachResult(result)
          /\ IF DoneSignal(toolCalls[toolIdx], result)
             THEN /\ Return("ok", "", result, totalUsage, turns)
                  /\ UNCHANGED toolIdx
             ELSE /\ toolIdx' = NextToolCall(toolIdx)
                  /\ pc' = "forToolCalls"
                  /\ UNCHANGED ret
  /\ UNCHANGED <<sideVars, cacheVars, reportedUsage, options, task, turns, budget, totalUsage, summarizedConversation, result,
                 caught, aborted, calls, abortAt, inFlight, erroredTurns, onlyErrors>>

\* onAfterToolCall rejected inside the try block: the catch block runs.
OnAfterToolCallThrows ==
  /\ pc = "onAfterToolCall"
  /\ faults < MaxFaults
  /\ faults' = faults + 1
  /\ lastReturned' = "none"
  /\ caught' = "hook failed"
  /\ Invoke("onToolCallError")
  /\ UNCHANGED <<sideVars, cacheVars, reportedUsage, options, task, turns, budget, totalUsage, conversation,
                 summarizedConversation, assistantMessage, toolIdx, result, aborted, ret,
                 abortAt, inFlight, erroredTurns, onlyErrors>>

\* onToolCallError resolved: cancellation check, attaching the error result.
OnToolCallErrorReturns ==
  /\ pc = "onToolCallError"
  /\ lastReturned' = "onToolCallError"
  /\ IF Cancelled(pc)
     THEN /\ Return("break", "", NoResult, totalUsage, turns)
          /\ UNCHANGED <<conversation, assistantMessage, toolIdx>>
     ELSE /\ AttachResult(ErrorResult(ToolErrorText(toolCalls[toolIdx].name, caught)))
          /\ toolIdx' = AfterFailedToolCall(toolIdx)
          /\ pc' = "forToolCalls"
          /\ UNCHANGED ret
  /\ UNCHANGED <<sideVars, cacheVars, reportedUsage, options, task, turns, budget, totalUsage, summarizedConversation, result,
                 caught, aborted, calls, abortAt, inFlight, erroredTurns, onlyErrors, faults>>

OnToolCallErrorThrows == HookThrows("onToolCallError")

\* abortController.abort(), called by other code while run is suspended (or
\* before run is called).
Abort ==
  /\ pc \in Awaits \cup {"idle"}
  /\ ~aborted
  /\ aborted' = TRUE
  /\ abortAt' = pc
  /\ UNCHANGED <<sideVars, cacheVars, reportedUsage, options, task, pc, turns, budget, totalUsage, conversation,
                 summarizedConversation, assistantMessage, toolIdx, result, caught, ret,
                 calls, lastReturned, inFlight, erroredTurns, onlyErrors, faults>>

HookStatuses == {"void", "disallow"}

Next ==
  \/ Run
  \/ ForTurns
  \/ OnBeforeTurnReturns
  \/ OnBeforeTurnThrows
  \/ \E message \in ProviderMessages : CompleteReturns(message, UsageOf(message))
  \/ OnAfterTurnReturns
  \/ OnAfterTurnThrows
  \/ ForToolCalls
  \/ \E status \in HookStatuses : OnBeforeToolCallReturns(status)
  \/ OnBeforeToolCallThrows
  \/ \E r \in CallToolResults : CallToolReturns(r)
  \/ CallToolThrows
  \/ \E status \in HookStatuses : OnAfterToolCallReturns(status)
  \/ OnAfterToolCallThrows
  \/ OnToolCallErrorReturns
  \/ OnToolCallErrorThrows
  \/ Abort

Spec == Init /\ [][Next]_vars

\* Runs long enough for an errored turn, a turn in between and another errored
\* turn: one more turn than MaxTurnsBound, a retry budget and no other budget.
RetryOptionSets ==
  [maxTurns : {MaxTurnsBound + 1},
   maxTokens : {undefined},
   maxToolCalls : {undefined},
   maxToolCallRetries : 0..MaxRetriesBound,
   summarize : {FALSE}]

RetryInit ==
  /\ options \in RetryOptionSets
  /\ InitState

RetrySpec == RetryInit /\ [][Next]_vars

\* Every awaited call settles: the hooks, the provider and callTool are
\* assumed to return or reject, so run is always resumed.
Resume ==
  \/ Run
  \/ ForTurns
  \/ OnBeforeTurnReturns
  \/ \E message \in ProviderMessages : CompleteReturns(message, UsageOf(message))
  \/ OnAfterTurnReturns
  \/ ForToolCalls
  \/ \E status \in HookStatuses : OnBeforeToolCallReturns(status)
  \/ \E r \in CallToolResults : CallToolReturns(r)
  \/ \E status \in HookStatuses : OnAfterToolCallReturns(status)
  \/ OnToolCallErrorReturns

FairSpec == Init /\ [][Next]_vars /\ WF_vars(Resume)

\* ------------------------------------------------- the replay cache alone
\* Largest number of calls of complete in one behaviour of CacheSpec.
MaxCompletions == 3

\* The ports of the test servers: 8907 + workerIndex * 2.
Ports == {"8907", "8909"}

\* A task that names a page of the test server.
PortTask(port) == "Open http://localhost:" \o port \o "/"

CacheTasks == {"Run numbers 1, 2"} \cup {PortTask(port) : port \in Ports}

\* The conversations complete is called with.
CacheConversations == {InitialConversation(t) : t \in CacheTasks}

\* What the live provider may answer, and what a cache may hold.
CacheCompletions ==
  {Completion(AssistantMessage(<<TextPart("ok")>>, "ok", "")),
   Completion(AssistantMessage(<<TextPart("ok"), ToolCallPart(TRUE)>>, "ok", ""))}

\* The caches a caller may hand in as options.cache.
ReplayCaches ==
  UNION {[K -> CacheCompletions] :
           K \in SUBSET {conversationHash(c) : c \in CacheConversations}}

CacheInit ==
  /\ Init
  /\ options = [maxTurns |-> 1, maxTokens |-> undefined, maxToolCalls |-> undefined,
                maxToolCallRetries |-> undefined, summarize |-> FALSE]

\* What the cache protocol leaves alone.
loopVars == <<options, task, turns, budget, totalUsage, conversation, assistantMessage,
              toolIdx, result, caught, aborted, ret, abortAt, lastReturned, inFlight,
              erroredTurns, onlyErrors, faults, reportedUsage, recorded, callToolFn>>

\* A run that is given options.cache: the caches of the run are the cache
\* handed in and the output cache of the Loop, which outlives the run.
RunWithCache(cache) ==
  /\ pc = "idle"
  /\ caches' = [input |-> cache, output |-> caches.output]
  /\ pc' = "run"
  /\ UNCHANGED <<sideVars, loopVars, summarizedConversation, calls, cachePc, key, completion,
                 providerCalls>>

\* complete(conversation) up to its return or to the await of the provider.
CachingProviderComplete(c) ==
  /\ pc = "run"
  /\ cachePc = "idle"
  /\ calls["complete"] < MaxCompletions
  /\ calls' = [calls EXCEPT !["complete"] = @ + 1]
  /\ summarizedConversation' = c
  /\ key' = conversationHash(c)
  /\ LET k == conversationHash(c) IN
     IF Lookup(caches, k) = "input"
     THEN /\ caches' = CopyToOutput(caches, k)
          /\ completion' = caches.input[k]
          /\ UNCHANGED <<cachePc, providerCalls>>
     ELSE IF Lookup(caches, k) = "output"
     THEN /\ completion' = caches.output[k]
          /\ UNCHANGED <<caches, cachePc, providerCalls>>
     ELSE /\ providerCalls' = providerCalls + 1
          /\ cachePc' = "provider"
          /\ UNCHANGED <<caches, completion>>
  /\ UNCHANGED <<sideVars, loopVars, pc>>

\* The live provider resolved with r: it is stored and returned.
ProviderCompleteReturns(r) ==
  /\ cachePc = "provider"
  /\ caches' = StoreResult(caches, key, r)
  /\ completion' = r
  /\ cachePc' = "idle"
  /\ UNCHANGED <<sideVars, loopVars, pc, summarizedConversation, calls, key, providerCalls>>

\* The run is over; the Loop may be run again.
RunReturns ==
  /\ pc = "run"
  /\ cachePc = "idle"
  /\ pc' = "idle"
  /\ UNCHANGED <<sideVars, loopVars, summarizedConversation, calls, cacheVars>>

CacheNext ==
  \/ \E cache \in ReplayCaches : RunWithCache(cache)
  \/ \E c \in CacheConversations : CachingProviderComplete(c)
  \/ \E r \in CacheCompletions : ProviderCompleteReturns(r)
  \/ RunReturns

CacheSpec == CacheInit /\ [][CacheNext]_vars

\* ------------------------------------ the replay cache, calls overlapping
\* What a call of complete leaves alone.
notOverlapVars == <<fetchVars, adapterVars, wrapVars, echoVars, requestVars, loopVars, pc,
                    summarizedConversation, calls, cachePc, key, completion>>

\* Call i of complete(conversation) up to its return or to the await of the
\* provider, on the caches the other calls use.
OverlapComplete(i, c) ==
  /\ pc = "run"
  /\ overlap[i].pc = "idle"
  /\ LET k == conversationHash(c)
         branch == Lookup(caches, k) IN
     IF branch = "input"
     THEN /\ caches' = CopyToOutput(caches, k)
          /\ overlap' = [overlap EXCEPT ![i] = [pc |-> "returned", key |-> k,
                                                completion |-> caches.input[k]]]
          /\ UNCHANGED providerCalls
     ELSE IF branch = "output"
     THEN /\ overlap' = [overlap EXCEPT ![i] = [pc |-> "returned", key |-> k,
                                                completion |-> caches.output[k]]]
          /\ UNCHANGED <<caches, providerCalls>>
     ELSE /\ providerCalls' = providerCalls + 1
          /\ overlap' = [overlap EXCEPT ![i] = [pc |-> "provider", key |-> k,
                                                completion |-> NoCompletion]]
          /\ UNCHANGED caches
  /\ UNCHANGED notOverlapVars

\* The live provider resolved call i with r: it is stored and returned.
OverlapProviderReturns(i, r) ==
  /\ overlap[i].pc = "provider"
  /\ caches' = StoreResult(caches, overlap[i].key, r)
  /\ overlap' = [overlap EXCEPT ![i] = [pc |-> "returned", key |-> overlap[i].key,
                                        completion |-> r]]
  /\ UNCHANGED <<notOverlapVars, providerCalls>>

OverlapNext ==
  \/ \E cache \in ReplayCaches : RunWithCache(cache)
  \/ \E i \in OverlapCalls, c \in CacheConversations : OverlapComplete(i, c)
  \/ \E i \in OverlapCalls, r \in CacheCompletions : OverlapProviderReturns(i, r)

OverlapSpec == CacheInit /\ [][OverlapNext]_vars

\* ------------------------------------------------------ record and replay
\* The options of the recorded and of the replayed run.
ReplayOptionSets ==
  [maxTurns : 1..MaxTurnsBound,
   maxTokens : {undefined, 300, 600},
   maxToolCalls : {undefined, 1},
   maxToolCallRetries : {undefined, 0},
   summarize : BOOLEAN]

\* A Loop with an empty cache to record into, hooks that return nothing, no
\* cancellation, and a tool callback whose result depends on the arguments
\* of the call only.
ReplayInit ==
  /\ Init
  /\ options \in ReplayOptionSets

ReplayTools == [BOOLEAN -> CallToolResults]

\* The tool callback is chosen when run is called.
RunWithTools(fn) ==
  /\ pc = "idle"
  /\ ~recorded.done
  /\ callToolFn' = fn
  /\ conversation' = InitialConversation(task)
  /\ budget' = [tokens |-> options.maxTokens,
                toolCalls |-> options.maxToolCalls,
                toolCallRetries |-> options.maxToolCallRetries]
  /\ totalUsage' = [input |-> 0, output |-> 0]
  /\ turns' = 0
  /\ pc' = "forTurns"
  /\ UNCHANGED <<sideVars, options, task, summarizedConversation, assistantMessage, toolIdx,
                 result, caught, aborted, ret, calls, abortAt, lastReturned,
                 inFlight, erroredTurns, onlyErrors, faults, reportedUsage, caches,
                 cachePc, key, completion, providerCalls, recorded>>

\* `await cachedComplete(...)` of a run with options.cache resolved with r,
\* which left the caches as cs after n live provider calls.
CachedCompleteStep(k, r, cs, n) ==
  /\ key' = k
  /\ completion' = r
  /\ caches' = cs
  /\ providerCalls' = n
  /\ CompleteStep(r.result, r.usage)
  /\ UNCHANGED <<cachePc, recorded, callToolFn>>

\* cachedComplete with caches: the lookup of complete, the live provider
\* being called only when the fingerprint is in neither cache.
CachedCompleteReturns ==
  /\ pc = "complete"
  /\ LET k == conversationHash(summarizedConversation) IN
     IF Lookup(caches, k) = "input"
     THEN CachedCompleteStep(k, caches.input[k], CopyToOutput(caches, k), providerCalls)
     ELSE IF Lookup(caches, k) = "output"
     THEN CachedCompleteStep(k, caches.output[k], caches, providerCalls)
     ELSE \E message \in ProviderMessages :
            CachedCompleteStep(k, Completion(message),
                               StoreResult(caches, k, Completion(message)),
                               providerCalls + 1)

\* callTool resolves with what the tool callback computes from the arguments.
DeterministicCallToolReturns ==
  /\ pc = "callTool"
  /\ CallToolReturns(callToolFn[toolCalls[toolIdx].is_done])

\* The recorded run has returned: its envelope and output cache are kept,
\* and the same task is run on a new Loop with the recorded output cache as
\* options.cache.
Replay ==
  /\ pc = "done"
  /\ ~recorded.done
  /\ recorded' = [done |-> TRUE, ret |-> ret, cache |-> caches.output]
  /\ caches' = [input |-> caches.output, output |-> EmptyCache]
  /\ providerCalls' = 0
  /\ pc' = "forTurns"
  /\ turns' = 0
  /\ budget' = [tokens |-> options.maxTokens,
                toolCalls |-> options.maxToolCalls,
                toolCallRetries |-> options.maxToolCallRetries]
  /\ totalUsage' = [input |-> 0, output |-> 0]
  /\ conversation' = InitialConversation(task)
  /\ summarizedConversation' = [systemPrompt |-> systemPrompt, messages |-> <<>>, tools |-> <<>>]
  /\ assistantMessage' = NoMessage
  /\ toolIdx' = 0
  /\ result' = NoResult
  /\ caught' = ""
  /\ ret' = NotReturned
  /\ calls' = [c \in Callees |-> 0]
  /\ lastReturned' = "none"
  /\ inFlight' = {}
  /\ erroredTurns' = 0
  /\ onlyErrors' = TRUE
  /\ reportedUsage' = [input |-> 0, output |-> 0]
  /\ key' = ""
  /\ completion' = NoCompletion
  /\ UNCHANGED <<sideVars, options, task, aborted, abortAt, faults, cachePc, callToolFn>>

ReplayNext ==
  \/ \E fn \in ReplayTools : RunWithTools(fn)
  \/ ForTurns
  \/ OnBeforeTurnReturns
  \/ CachedCompleteReturns
  \/ OnAfterTurnReturns
  \/ ForToolCalls
  \/ OnBeforeToolCallReturns("void")
  \/ DeterministicCallToolReturns
  \/ OnAfterToolCallReturns("void")
  \/ Replay

ReplaySpec == ReplayInit /\ [][ReplayNext]_vars

\* ------------------------------------------- fetchWithTimeout: the actions
\* The timeouts a caller may pass (options.apiTimeout of the adapters): none,
\* zero, or a number of milliseconds.
Timeouts == {undefined, 0, 5000, 30000}

\* What the caller may pass to abort(): nothing (a runtime without a default
\* reason leaves signal.reason undefined, others set an AbortError) or a reason.
AbortReasons == {"undefined", AbortError, "user cancelled"}

\* `Fetch timeout after ${options.timeout}ms`
FetchTimeoutError(timeout) == "Fetch timeout after " \o OptionText(timeout) \o "ms"

\* options.timeout ? setTimeout(...) : undefined
SetTimeout(timeout) ==
  IF timeout # undefined /\ timeout # 0 THEN "pending" ELSE "undefined"

\* Mutant: every failure of fetch is reported as a timeout.
AlwaysTimeoutError(opts, sig, error) == FetchTimeoutError(opts.timeout)

\* The catch block: `if (options.signal?.aborted) throw options.signal.reason
\* ?? error; throw new Error(...)`.
FetchFailure(opts, sig, error) ==
  IF opts.signal /\ sig.aborted
  THEN IF sig.reason # "undefined" THEN sig.reason ELSE error
  ELSE FetchTimeoutError(opts.timeout)

\* Mutant: the finally block does not remove the listener.
KeepListener(opts, listeners) == listeners

\* options.signal?.removeEventListener('abort', abort)
RemoveListener(opts, listeners) == IF opts.signal THEN listeners \ {"abort"} ELSE listeners

\* clearTimeout(timeoutId)
ClearTimeout(id) == IF id = "pending" THEN "cleared" ELSE id

\* What the fetch machine leaves alone.
notFetchVars == <<loopAndCacheVars, adapterVars, wrapVars, echoVars, requestVars, overlapVars>>

\* The call up to `await fetch(url, {...options, signal: controller.signal})`.
FetchWithTimeout(timeout, withSignal) ==
  /\ fetchPc = "idle"
  /\ fetchOptions' = [timeout |-> timeout, signal |-> withSignal]
  /\ controller' = [aborted |-> FALSE]
  /\ timeoutId' = SetTimeout(timeout)
  /\ signal' = IF withSignal THEN [signal EXCEPT !.listeners = @ \cup {"abort"}] ELSE signal
  /\ fetchPromise' = "pending"
  /\ fetchPc' = "fetch"
  /\ UNCHANGED <<fetchOutcome, notFetchVars>>

\* controller.abort(): the signal of the request aborts, and a fetch that
\* has not settled rejects with an AbortError.
ControllerAbort ==
  /\ controller' = [aborted |-> TRUE]
  /\ IF fetchPc = "fetch" /\ fetchPromise = "pending"
     THEN fetchPromise' = AbortError /\ fetchPc' = "settled"
     ELSE UNCHANGED <<fetchPromise, fetchPc>>

\* The timer fires: `() => controller.abort()`.
TimerFires ==
  /\ timeoutId = "pending"
  /\ fetchPc # "settled"
  /\ timeoutId' = "fired"
  /\ ControllerAbort
  /\ UNCHANGED <<fetchOptions, signal, fetchOutcome, notFetchVars>>

\* The caller aborts its signal, before, during or after the call; the
\* listeners of the signal run.
CallerAborts(reason) ==
  /\ fetchPc # "settled"
  /\ ~signal.aborted
  /\ signal' = [signal EXCEPT !.aborted = TRUE, !.reason = reason]
  /\ IF "abort" \in signal.listeners
     THEN ControllerAbort
     ELSE UNCHANGED <<controller, fetchPromise, fetchPc>>
  /\ UNCHANGED <<fetchOptions, timeoutId, fetchOutcome, notFetchVars>>

\* The response arrives.
FetchResolves ==
  /\ fetchPc = "fetch"
  /\ fetchPromise = "pending"
  /\ fetchPromise' = "response"
  /\ fetchPc' = "settled"
  /\ UNCHANGED <<fetchOptions, signal, controller, timeoutId, fetchOutcome, notFetchVars>>

\* The request fails for a reason other than an abort.
FetchRejects ==
  /\ fetchPc = "fetch"
  /\ fetchPromise = "pending"
  /\ fetchPromise' = NetworkError
  /\ fetchPc' = "settled"
  /\ UNCHANGED <<fetchOptions, signal, controller, timeoutId, fetchOutcome, notFetchVars>>

\* The finally block.
Finally ==
  /\ timeoutId' = ClearTimeout(timeoutId)
  /\ signal' = [signal EXCEPT !.listeners = RemoveListener(fetchOptions, @)]

\* `return await fetch(...)` resumes with the response.
FetchWithTimeoutReturns ==
  /\ fetchPc = "settled"
  /\ fetchPromise = "response"
  /\ fetchOutcome' = [kind |-> "return", value |-> "response"]
  /\ Finally
  /\ fetchPc' = "returned"
  /\ UNCHANGED <<fetchOptions, controller, fetchPromise, notFetchVars>>

\* `await fetch(...)` resumes with an error: the catch block.
FetchWithTimeoutThrows ==
  /\ fetchPc = "settled"
  /\ fetchPromise # "response"
  /\ fetchOutcome' = [kind |-> "throw", value |-> FetchFailure(fetchOptions, signal, fetchPromise)]
  /\ Finally
  /\ fetchPc' = "thrown"
  /\ UNCHANGED <<fetchOptions, controller, fetchPromise, notFetchVars>>

FetchInit ==
  /\ Init
  /\ options = [maxTurns |-> 1, maxTokens |-> undefined, maxToolCalls |-> undefined,
                maxToolCallRetries |-> undefined, summarize |-> FALSE]

FetchNext ==
  \/ \E timeout \in Timeouts, withSignal \in BOOLEAN : FetchWithTimeout(timeout, withSignal)
  \/ TimerFires
  \/ \E reason \in AbortReasons : CallerAborts(reason)
  \/ FetchResolves
  \/ FetchRejects
  \/ FetchWithTimeoutReturns
  \/ FetchWithTimeoutThrows

FetchSpec == FetchInit /\ [][FetchNext]_vars

\* ------------------------------------------ provider adapters: complete
Adapters == {"google", "openaiCompatible", "openai"}

\* The adapters whose create calls fetchWithTimeout; openai calls fetch.
UsesFetchWithTimeout(a) == a \in {"google", "openaiCompatible"}

\* The HTTP statuses of the responses.
Statuses == {200, 429, 500}

\* response.ok
Ok(status) == status >= 200 /\ status < 300

\* The candidates (choices, output items) of a parsed response body.
Candidates ==
  {<<>>,
   <<[finishReason |-> "STOP", parts |-> <<TextPart("Hello")>>]>>,
   <<[finishReason |-> "MAX_TOKENS", parts |-> <<TextPart("Hello")>>]>>,
   <<[finishReason |-> "STOP", parts |-> <<TextPart("ok"), ToolCallPart(TRUE)>>]>>}

ResponseBodies ==
  [json : {"parsed"}, candidates : Candidates, usage : {[input |-> 120, output |-> 10]}]

\* `API error: ${response.status} ${response.statusText} ${await response.text()}`
ApiError(status) == "API error: " \o ToString(status)

\* types.assistantMessageFromError and types.emptyUsage
assistantMessageFromError(error) == AssistantMessage(<<>>, "error", error)
emptyUsage == [input |-> 0, output |-> 0]

\* complete resolves with {result, usage}.
Resolve(message, usage) ==
  [kind |-> "return", error |-> "", result |-> message, usage |-> usage]

\* complete rejects with error.
Reject(error) ==
  [kind |-> "throw", error |-> error, result |-> NoMessage, usage |-> emptyUsage]

\* Google: toAssistantMessage(candidate)
toAssistantMessage(candidate) ==
  AssistantMessage(candidate.parts,
                   IF candidate.finishReason = "MAX_TOKENS" THEN "max_tokens" ELSE "ok", "")

\* The OpenAI adapters: the parts of all choices (output items), no stop reason.
RECURSIVE PartsOf(_)
PartsOf(candidates) ==
  IF Len(candidates) = 0 THEN <<>> ELSE candidates[1].parts \o PartsOf(Tail(candidates))

\* What complete does when `!response.ok`.
OnHttpFailure(a, status) ==
  IF a = "google" THEN Resolve(assistantMessageFromError(ApiError(status)), emptyUsage)
  ELSE Reject(ApiError(status))

\* What complete does with a parsed response body.
OnBody(a, body) ==
  IF a = "google"
  THEN IF Len(body.candidates) = 0
       THEN Resolve(assistantMessageFromError("No response from Google API"), emptyUsage)
       ELSE Resolve(toAssistantMessage(body.candidates[1]), body.usage)
  ELSE IF a = "openaiCompatible" /\ Len(body.candidates) = 0
  THEN Reject("Failed to get response from OpenAI completions")
  ELSE Resolve(AssistantMessage(PartsOf(body.candidates), "undefined", ""), body.usage)

\* What complete does when fetchWithTimeout, fetch or response.json() rejects:
\* no adapter has a try block around them.
OnRejection(a, error) == Reject(error)

\* What the adapters leave alone.
notAdapterVars == <<loopAndCacheVars, wrapVars, echoVars, requestVars, overlapVars>>

\* complete(conversation, options) up to the call of create.
Complete(a) ==
  /\ adapterPc = "idle"
  /\ adapter' = a
  /\ adapterPc' = "create"
  /\ UNCHANGED <<response, responseBody, adapterOutcome, fetchVars, notAdapterVars>>

\* create calls fetchWithTimeout with options.signal and options.apiTimeout.
CreateCallsFetchWithTimeout(timeout, withSignal) ==
  /\ adapterPc = "create"
  /\ UsesFetchWithTimeout(adapter)
  /\ FetchWithTimeout(timeout, withSignal)

\* fetchWithTimeout (or, for openai, fetch) resolved with a response of the
\* given status: `if (!response.ok)`.
CreateGetsResponse(status) ==
  /\ adapterPc = "create"
  /\ IF UsesFetchWithTimeout(adapter) THEN fetchPc = "returned" ELSE TRUE
  /\ response' = [ok |-> Ok(status), status |-> status]
  /\ adapterPc' = IF Ok(status) THEN "json" ELSE "text"
  /\ UNCHANGED <<adapter, responseBody, adapterOutcome, fetchVars, notAdapterVars>>

\* fetchWithTimeout threw, or the fetch of openai rejected.
CreateFetchThrows ==
  /\ adapterPc = "create"
  /\ IF UsesFetchWithTimeout(adapter) THEN fetchPc = "thrown" ELSE TRUE
  /\ adapterOutcome' =
       OnRejection(adapter, IF UsesFetchWithTimeout(adapter) THEN fetchOutcome.value
                            ELSE NetworkError)
  /\ adapterPc' = "done"
  /\ UNCHANGED <<adapter, response, responseBody, fetchVars, notAdapterVars>>

\* `await response.text()` resolved.
TextReturns ==
  /\ adapterPc = "text"
  /\ adapterOutcome' = OnHttpFailure(adapter, response.status)
  /\ adapterPc' = "done"
  /\ UNCHANGED <<adapter, response, responseBody, fetchVars, notAdapterVars>>

\* `await response.json()` resolved with body.
JsonReturns(body) ==
  /\ adapterPc = "json"
  /\ responseBody' = body
  /\ adapterOutcome' = OnBody(adapter, body)
  /\ adapterPc' = "done"
  /\ UNCHANGED <<adapter, response, fetchVars, notAdapterVars>>

\* `await response.json()` rejected: the body is not JSON.
JsonThrows ==
  /\ adapterPc = "json"
  /\ responseBody' = [NoBody EXCEPT !.json = "SyntaxError"]
  /\ adapterOutcome' = OnRejection(adapter, "SyntaxError: Unexpected token")
  /\ adapterPc' = "done"
  /\ UNCHANGED <<adapter, response, fetchVars, notAdapterVars>>

AdapterInit == FetchInit

AdapterNext ==
  \/ \E a \in Adapters : Complete(a)
  \/ \E timeout \in Timeouts, withSignal \in BOOLEAN :
       CreateCallsFetchWithTimeout(timeout, withSignal)
  \/ TimerFires
  \/ \E reason \in AbortReasons : CallerAborts(reason)
  \/ FetchResolves
  \/ FetchRejects
  \/ FetchWithTimeoutReturns
  \/ FetchWithTimeoutThrows
  \/ \E status \in Statuses : CreateGetsResponse(status)
  \/ CreateFetchThrows
  \/ TextReturns
  \/ \E body \in ResponseBodies : JsonReturns(body)
  \/ JsonThrows

AdapterSpec == AdapterInit /\ [][AdapterNext]_vars

\* ------------------------------------------- tool wrapping: the actions
\* Largest number of tools the caller defines.
MaxTools == 2
\* Largest number of runs.
MaxRuns == 2

\* A property map: property name to schema type.
NoProps == [n \in {} |-> ""]
ValueProps == [n \in {"value"} |-> "number"]

\* inputSchema.properties of the caller's tools: undefined or a property map.
CallerProperties == {<<>>, <<NoProps>>, <<ValueProps>>}

\* inputSchema.required of the caller's tools: undefined or a list.
CallerRequired == {<<>>, <<<<>>>>, <<<<"value">>>>}

\* Allocation: the address of the object appended to a part of the heap.
NewAddress(objects) == Len(objects) + 1

\* The caller builds a tool {name, inputSchema: {properties, required}}; an
\* absent field is the address 0.
NewTool(h, name, properties, required) ==
  LET pAddr == IF properties = <<>> THEN 0 ELSE NewAddress(h.props)
      rAddr == IF required = <<>> THEN 0 ELSE NewAddress(h.arrays)
      sAddr == NewAddress(h.schemas)
  IN [tools |-> Append(h.tools, [name |-> name, inputSchema |-> sAddr]),
      schemas |-> Append(h.schemas, [properties |-> pAddr, required |-> rAddr]),
      props |-> h.props \o properties,
      arrays |-> h.arrays \o required]

\* {...inputSchema.properties, _is_done: {type: 'boolean', ...}}
WithIsDoneProperty(h, pAddr) ==
  LET old == IF pAddr = 0 THEN NoProps ELSE h.props[pAddr]
  IN [n \in DOMAIN old \cup {"_is_done"} |-> IF n = "_is_done" THEN "boolean" ELSE old[n]]

\* [...(inputSchema.required || []), '_is_done']
WithIsDoneRequired(h, rAddr) ==
  (IF rAddr = 0 THEN <<>> ELSE h.arrays[rAddr]) \o <<"_is_done">>

\* wrapToolWithIsDone(tool): a copy of the schema whose properties and
\* required are new objects, and a copy of the tool that refers to it.  The
\* result is the new heap; the wrapped tool is its last tool.
wrapToolWithIsDone(h, t) ==
  LET inputSchema == h.schemas[h.tools[t].inputSchema]
      sAddr == NewAddress(h.schemas)
      pAddr == NewAddress(h.props)
      rAddr == NewAddress(h.arrays)
  IN [tools |-> Append(h.tools, [h.tools[t] EXCEPT !.inputSchema = sAddr]),
      schemas |-> Append(h.schemas, [inputSchema EXCEPT !.properties = pAddr,
                                                         !.required = rAddr]),
      props |-> Append(h.props, WithIsDoneProperty(h, inputSchema.properties)),
      arrays |-> Append(h.arrays, WithIsDoneRequired(h, inputSchema.required))]

\* (options.tools || []).map(wrapToolWithIsDone): the heap after wrapping the
\* tools from the i-th on.
RECURSIVE MapWrap(_, _, _)
MapWrap(h, tools, i) ==
  IF i > Len(tools) THEN h ELSE MapWrap(wrapToolWithIsDone(h, tools[i]), tools, i + 1)

\* The addresses of the n tools a map over the heap h returned.
Wrapped(h, n) == [i \in 1..n |-> Len(h.tools) + i]

\* What the wrapping leaves alone.
notWrapVars == <<loopAndCacheVars, fetchVars, adapterVars, echoVars, requestVars, overlapVars>>

\* The caller defines a tool of options.tools.
DefineTool(properties, required) ==
  /\ wrapPc = "idle"
  /\ runs = 0
  /\ Len(callerTools) < MaxTools
  /\ heap' = NewTool(heap, "push", properties, required)
  /\ callerTools' = Append(callerTools, NewAddress(heap.tools))
  /\ UNCHANGED <<allTools, wrapPc, snapshot, wrappedTools, runs, notWrapVars>>

\* run up to the turn loop: conversation.tools is the wrapped options.tools.
RunWrapsTools ==
  /\ wrapPc = "idle"
  /\ runs < MaxRuns
  /\ snapshot' = heap
  /\ heap' = MapWrap(heap, callerTools, 1)
  /\ allTools' = Wrapped(heap, Len(callerTools))
  /\ wrappedTools' = wrappedTools \cup {Len(heap.tools) + i : i \in 1..Len(callerTools)}
  /\ wrapPc' = "running"
  /\ UNCHANGED <<callerTools, runs, notWrapVars>>

\* run returns; the caller keeps the conversation it saw in the hooks.
WrappedRunReturns ==
  /\ wrapPc = "running"
  /\ wrapPc' = "idle"
  /\ runs' = runs + 1
  /\ UNCHANGED <<heap, callerTools, allTools, snapshot, wrappedTools, notWrapVars>>

\* The caller passes the tools of the conversation of the last run as the
\* options.tools of the next run.
ReuseConversationTools ==
  /\ wrapPc = "idle"
  /\ runs > 0
  /\ callerTools # allTools
  /\ callerTools' = allTools
  /\ UNCHANGED <<heap, allTools, wrapPc, snapshot, wrappedTools, runs, notWrapVars>>

WrapInit == FetchInit

WrapNext ==
  \/ \E properties \in CallerProperties, required \in CallerRequired :
       DefineTool(properties, required)
  \/ RunWrapsTools
  \/ WrappedRunReturns
  \/ ReuseConversationTools

WrapSpec == WrapInit /\ [][WrapNext]_vars

\* ------------------------------------- Google echo fields: the actions
\* Largest number of parts in a candidate of the response.
MaxParts == 2

\* part.thoughtSignature: absent or an opaque token.
Signatures == {"undefined", "sigA", "sigB"}

\* The parts of a Gemini response: text, a function call, or something else
\* (text and functionCall both absent).
GeminiText(signature) ==
  [text |-> "Hello", functionCall |-> <<>>, thoughtSignature |-> signature]
GeminiCall(isDone, signature) ==
  [text |-> "", functionCall |-> <<[name |-> "push", args |-> [_is_done |-> isDone]]>>,
   thoughtSignature |-> signature]
GeminiOther(signature) ==
  [text |-> "", functionCall |-> <<>>, thoughtSignature |-> signature]

GeminiParts ==
  {GeminiText(sig) : sig \in Signatures}
  \cup {GeminiCall(d, sig) : d \in BOOLEAN, sig \in Signatures}
  \cup {GeminiOther(sig) : sig \in Signatures}

RECURSIVE GeminiPartSeqs(_)
GeminiPartSeqs(n) ==
  IF n = 0 THEN {<<>>}
  ELSE {s \o <<part>> : s \in GeminiPartSeqs(n - 1), part \in GeminiParts}

\* `call_${Math.random().toString(36).substring(2, 15)}`
CallIds == {"call_k3x", "call_9qz"}

\* toContentPart(part): the content part, or nothing for a part that is
\* neither text nor a function call.
toContentPart(part, id) ==
  IF part.text # ""
  THEN <<[type |-> "text", text |-> part.text,
          googleThoughtSignature |-> part.thoughtSignature]>>
  ELSE IF part.functionCall # <<>>
  THEN <<[type |-> "tool_call", name |-> part.functionCall[1].name, id |-> id,
          is_done |-> part.functionCall[1].args._is_done, result |-> NoResult,
          googleThoughtSignature |-> part.thoughtSignature]>>
  ELSE <<>>

\* (candidate.content.parts || []).map(toContentPart).filter(Boolean)
RECURSIVE ContentOf(_, _, _)
ContentOf(parts, ids, i) ==
  IF i > Len(parts) THEN <<>>
  ELSE toContentPart(parts[i], ids[i]) \o ContentOf(parts, ids, i + 1)

\* Mutant: the signature is echoed on text parts only.
toGeminiPartTextSignatureOnly(part) ==
  IF part.type = "text"
  THEN [text |-> part.text, functionCall |-> <<>>,
        thoughtSignature |-> part.googleThoughtSignature]
  ELSE [text |-> "",
        functionCall |-> <<[name |-> part.name, args |-> [_is_done |-> part.is_done]]>>,
        thoughtSignature |-> "undefined"]

\* toGeminiContent: the part pushed for a content part of the message.
toGeminiPart(part) ==
  IF part.type = "text"
  THEN [text |-> part.text, functionCall |-> <<>>,
        thoughtSignature |-> part.googleThoughtSignature]
  ELSE [text |-> "",
        functionCall |-> <<[name |-> part.name, args |-> [_is_done |-> part.is_done]]>>,
        thoughtSignature |-> part.googleThoughtSignature]

\* toGeminiToolResult(call, result): the function-role content of a result
\* (text parts joined by a newline; the model's results hold no images).
toGeminiToolResult(call) ==
  [role |-> "function",
   parts |-> <<[functionResponse |->
                  [name |-> call.name, response |-> JoinWith(call.result.content, "\\n")]]>>]

RECURSIVE ToolResultContents(_)
ToolResultContents(content) ==
  IF Len(content) = 0 THEN <<>>
  ELSE (IF content[1].type = "tool_call" /\ content[1].result.set
        THEN <<toGeminiToolResult(content[1])>> ELSE <<>>)
       \o ToolResultContents(Tail(content))

\* toGeminiContent(message) for an assistant message: the model content, the
\* contents of the tool results, and the toolError as a user content.
toGeminiContent(message) ==
  <<[role |-> "model",
     parts |-> [i \in 1..Len(message.content) |-> toGeminiPart(message.content[i])]]>>
  \o ToolResultContents(message.content)
  \o (IF message.toolError # ""
      THEN <<[role |-> "user", parts |-> <<[text |-> message.toolError]>>]>> ELSE <<>>)

\* What the echo machine leaves alone.
notEchoVars == <<loopAndCacheVars, fetchVars, adapterVars, wrapVars, requestVars, overlapVars>>

\* Google.complete resolved with some parts, the ids being random: run pushes
\* toAssistantMessage(candidate) to conversation.messages.
GoogleCompleteReturns ==
  /\ echoPc = "idle"
  /\ \E parts \in UNION {GeminiPartSeqs(n) : n \in 0..MaxParts},
        ids \in [1..MaxParts -> CallIds] :
       /\ geminiParts' = parts
       /\ echoMessage' = AssistantMessage(ContentOf(parts, ids, 1), "ok", "")
  /\ echoPc' = "conversation"
  /\ UNCHANGED <<geminiContents, notEchoVars>>

\* run sets toolCall.result of the i-th tool call of the message.
SchedulerAttachesResult(i, r) ==
  /\ echoPc = "conversation"
  /\ i <= Len(ToolCallsOf(echoMessage))
  /\ ~ToolCallsOf(echoMessage)[i].result.set
  /\ echoMessage' = WithResult(echoMessage, i, r)
  /\ UNCHANGED <<geminiParts, geminiContents, echoPc, notEchoVars>>

\* run sets assistantMessage.toolError of a message without tool calls.
SchedulerSetsToolError ==
  /\ echoPc = "conversation"
  /\ Len(ToolCallsOf(echoMessage)) = 0
  /\ echoMessage.toolError = ""
  /\ echoMessage' = [echoMessage EXCEPT !.toolError = ToolErrorHint]
  /\ UNCHANGED <<geminiParts, geminiContents, echoPc, notEchoVars>>

\* The next completion: conversation.messages.map(toGeminiContent).
GoogleSerializes ==
  /\ echoPc = "conversation"
  /\ geminiContents' = toGeminiContent(echoMessage)
  /\ geminiContents' # geminiContents
  /\ UNCHANGED <<geminiParts, echoMessage, echoPc, notEchoVars>>

EchoInit == FetchInit

EchoNext ==
  \/ GoogleCompleteReturns
  \/ \E i \in 1..MaxParts, r \in CallToolResults : SchedulerAttachesResult(i, r)
  \/ SchedulerSetsToolError
  \/ GoogleSerializes

EchoSpec == EchoInit /\ [][EchoNext]_vars

\* ------------------------------------------------------------------ claims
Terminated == pc \in {"done", "thrown"}

Returned(status, error) == pc = "done" /\ ret.status = status /\ ret.error = error

\* The turn counter and the number of completions stay within maxTurns, and
\* the max-attempts error is what run returns when the counter gets there.
C1_WithinMaxTurns ==
  /\ calls["complete"] <= maxTurns
  /\ calls["complete"] <= turns + 1
  /\ turns <= maxTurns
  /\ (turns = maxTurns /\ ~Terminated) => pc = "forTurns"
  /\ (pc = "done" /\ turns = maxTurns) =>
       /\ ret.status = "error"
       /\ ret.error = "Failed to perform step, max attempts reached"
       /\ ret.turns = maxTurns
       /\ ret.usage = totalUsage
  /\ Returned("error", "Failed to perform step, max attempts reached") => turns = maxTurns

\* C1: run ends within maxTurns turns.  It never performs more than maxTurns
\* provider completions (at most one per turn), the turn counter never passes
\* maxTurns, once the counter reaches maxTurns the only thing run does is
\* return {status: 'error', error: 'Failed to perform step, max attempts
\* reached', turns: maxTurns}, and, every awaited call settling, run ends.
C1_TerminatesWithinMaxTurns == []C1_WithinMaxTurns /\ <>Terminated

\* A run that used every turn and returned the max-attempts error.
C1_Witness ==
  /\ Returned("error", "Failed to perform step, max attempts reached")
  /\ calls["complete"] = maxTurns
  /\ maxTurns = MaxTurnsBound

\* The assistant messages of the conversation and their tool calls.
AssistantMessages == SelectSeq(conversation.messages, IsAssistant)

ToolCallsInHistory ==
  {<<m, i>> \in (1..Len(AssistantMessages)) \X (1..MaxToolCallsPerMessage + 1) :
     i <= Len(ToolCallsOf(AssistantMessages[m]))}

HistoryCall(mi) == ToolCallsOf(AssistantMessages[mi[1]])[mi[2]]

\* C2: run returns {status: 'ok', result} exactly when a tool call with
\* _is_done = true carries a result without isError; that result is what
\* callTool returned for it and what run returns.
C2_DoneSignal ==
  /\ (ret.status = "ok") <=>
       (\E mi \in ToolCallsInHistory :
          /\ HistoryCall(mi).is_done
          /\ HistoryCall(mi).result.set
          /\ ~HistoryCall(mi).result.isError)
  /\ ret.status = "ok" =>
       /\ pc = "done"
       /\ calls["callTool"] >= 1
       /\ lastReturned = "onAfterToolCall"
       /\ toolCalls[toolIdx].is_done
       /\ result \in CallToolResults
       /\ ~result.isError
       /\ toolCalls[toolIdx].result = result
       /\ ret.result = result

\* The done signal of the second tool call of the second turn.
C2_Witness ==
  /\ ret.status = "ok"
  /\ turns = 1
  /\ toolIdx = 2
  /\ ~toolCalls[1].is_done

\* C3: whenever an awaited hook, the provider completion or callTool returns
\* while cancellation is requested, run returns {status: 'break', usage,
\* turns} without invoking any further hook, provider call or tool call.
C3_CancelAtEverySuspension ==
  [][(aborted /\ pc \in Awaits /\ lastReturned' = pc /\ pc' # pc) =>
       /\ pc' = "done"
       /\ ret'.status = "break"
       /\ ret'.usage = totalUsage
       /\ ret'.turns = turns
       /\ calls' = calls]_vars

\* C4: abort() during onBeforeToolCall: callTool is never started for that
\* tool call, and when run returns it returns {status: 'break'}, with the
\* assistant message of the turn in the conversation and the pending tool call
\* without a result.
C4_AbortDuringBeforeToolCall ==
  abortAt = "onBeforeToolCall" =>
    /\ pc \in {"onBeforeToolCall", "done", "thrown"}
    /\ inFlight = {}
    /\ pc = "done" =>
         /\ ret.status = "break"
         /\ conversation.messages[Len(conversation.messages)] = assistantMessage
         /\ ~toolCalls[toolIdx].result.set
         /\ \A j \in 1..Len(toolCalls) : toolCalls[j].result.set <=> j < toolIdx

\* abort() during the onBeforeToolCall of the second tool call of a message.
C4_Witness ==
  /\ abortAt = "onBeforeToolCall"
  /\ pc = "done"
  /\ toolIdx = 2
  /\ toolCalls[1].result.set

ThrownResults ==
  {ErrorResult(ToolErrorText("push", e)) : e \in {"tool failed", "hook failed"}}

\* C5: when a provider completion is requested, every tool call of every
\* assistant message of the conversation has a result: what callTool returned,
\* a disallow error result or a thrown-error result.
C5_NoOrphanToolCall ==
  pc = "complete" =>
    \A mi \in ToolCallsInHistory :
      /\ HistoryCall(mi).result.set
      /\ HistoryCall(mi).result \in
           CallToolResults \cup ThrownResults \cup {DisallowedCallResult, DisallowedResultResult}

\* A completion requested after a turn whose two tool calls got a disallow
\* result and a real one.
C5_Witness ==
  /\ pc = "complete"
  /\ turns = 1
  /\ Len(toolCalls) = 2
  /\ toolCalls[1].result = DisallowedCallResult
  /\ toolCalls[2].result \in CallToolResults

\* The attempts and the callTool invocations of the whole run stay within N.
C6_WithinMaxToolCalls ==
  options.maxToolCalls # undefined =>
    /\ calls["onBeforeToolCall"] <= options.maxToolCalls
    /\ calls["callTool"] <= options.maxToolCalls
    /\ (pc = "done" /\ ret.error = "Failed to perform step, max tool calls ("
                                   \o ToString(options.maxToolCalls) \o ") reached") =>
         /\ ret.status = "error"
         /\ calls["onBeforeToolCall"] = options.maxToolCalls

\* The step taken when a tool call comes up after N attempts.
C6_OneMoreToolCall ==
  (/\ pc = "forToolCalls"
   /\ toolIdx <= Len(toolCalls)
   /\ options.maxToolCalls # undefined
   /\ calls["onBeforeToolCall"] = options.maxToolCalls) =>
     /\ pc' = "done"
     /\ ret'.status = "error"
     /\ ret'.error = "Failed to perform step, max tool calls ("
                     \o ToString(options.maxToolCalls) \o ") reached"
     /\ calls' = calls

\* C6: with maxToolCalls = N at most N tool calls are attempted (reach
\* onBeforeToolCall) and callTool is invoked at most N times over the run; when
\* one more tool call comes up, run returns the max-tool-calls error without
\* invoking onBeforeToolCall or callTool for it.
C6_MaxToolCalls == []C6_WithinMaxToolCalls /\ [][C6_OneMoreToolCall]_vars

\* The tool-call ceiling hit in the second turn after MaxToolCallsBound calls.
C6_Witness ==
  /\ pc = "done"
  /\ ret.status = "error"
  /\ options.maxToolCalls = MaxToolCallsBound
  /\ calls["callTool"] = MaxToolCallsBound
  /\ budget.toolCalls = 0 - 1

ConversationView ==
  IF options.summarize THEN SummarizeConversation(task, conversation) ELSE conversation

\* A completion is in progress only with the estimate below the budget.
C8_ProviderWithinBudget ==
  pc = "complete" =>
    \/ budget.tokens = undefined
    \/ Len(JSONStringify(ConversationView)) \div 4 < budget.tokens

\* The step taken after onBeforeTurn when the estimate is not below the budget.
C8_EstimateOverBudget ==
  (/\ pc = "onBeforeTurn"
   /\ lastReturned' = "onBeforeTurn"
   /\ ~aborted
   /\ budget.tokens # undefined
   /\ Len(JSONStringify(ConversationView)) \div 4 >= budget.tokens) =>
     /\ pc' = "done"
     /\ ret'.status = "error"
     /\ ret'.error = "Input token estimate "
                     \o ToString(Len(JSONStringify(ConversationView)) \div 4)
                     \o " exceeds budget " \o ToString(budget.tokens)
     /\ ret'.turns = turns
     /\ ret'.usage = totalUsage
     /\ calls' = calls

\* C8: the provider is only called when no token budget is set or the token
\* estimate of the view is below the remaining budget; when onBeforeTurn has
\* returned without cancellation and the estimate is at or above the remaining
\* budget, run returns 'Input token estimate <N> exceeds budget <B>' with the
\* turns completed so far and does not call the provider.
C8_TokenEstimate == []C8_ProviderWithinBudget /\ [][C8_EstimateOverBudget]_vars

\* The estimate error in the second turn, against what is left of the budget.
C8_Witness ==
  /\ pc = "done"
  /\ ret.status = "error"
  /\ ret.turns = 1
  /\ lastReturned = "onBeforeTurn"
  /\ ~aborted
  /\ budget.tokens > 0
  /\ budget.tokens < options.maxTokens

\* The step taken when the completion resolves with such a stop reason.
C9_StopReasonStep ==
  (pc = "complete" /\ lastReturned' = "complete"
   /\ assistantMessage'.stopReason.code \in {"max_tokens", "error"}) =>
     /\ pc' = "done"
     /\ ret'.status = "error"
     /\ ret'.error = IF assistantMessage'.stopReason.code = "max_tokens"
                     THEN "Max tokens exhausted"
                     ELSE assistantMessage'.stopReason.message
     /\ conversation' = conversation
     /\ calls' = calls

\* Once run has returned nothing is invoked and the conversation stays.
C9_NothingAfterReturn == pc = "done" => (calls' = calls /\ conversation' = conversation)

\* C9: a provider message with stop reason max_tokens makes run return
\* 'Max tokens exhausted', one with stop reason error makes it return the
\* provider's message; the message is not appended to the conversation and no
\* hook, provider call or tool call follows.
C9_StopReason == [][C9_StopReasonStep /\ C9_NothingAfterReturn]_vars

\* A max_tokens stop in the second turn.
C9_Witness ==
  /\ pc = "done"
  /\ ret.error = "Max tokens exhausted"
  /\ assistantMessage.stopReason.code = "max_tokens"
  /\ turns = 1
  /\ Len(AssistantMessages) = 1

\* C10: the tool calls of a message are dispatched one at a time in
\* declaration order: at most one callTool is in flight, and while the i-th
\* tool call is being processed exactly the tool calls before it have a
\* result.
C10_SequentialDispatch ==
  /\ Cardinality(inFlight) <= 1
  /\ pc = "callTool" => inFlight = {toolIdx}
  /\ pc \in {"onBeforeToolCall", "callTool", "onAfterToolCall", "onToolCallError"} =>
       /\ toolIdx \in 1..Len(toolCalls)
       /\ \A j \in 1..Len(toolCalls) : toolCalls[j].result.set <=> j < toolIdx

\* callTool in flight for the second tool call, the first one finished.
C10_Witness ==
  /\ pc = "callTool"
  /\ toolIdx = 2
  /\ toolCalls[1].result \in CallToolResults
  /\ inFlight = {2}

\* The event hooks of run.
Hooks == {"onBeforeTurn", "onAfterTurn", "onBeforeToolCall", "onAfterToolCall",
          "onToolCallError"}

\* The awaits of the tool dispatch of a turn.
ToolDispatch == {"forToolCalls", "onBeforeToolCall", "callTool", "onAfterToolCall",
                 "onToolCallError"}

\* A step that invokes callee.
Invokes(callee) == calls'[callee] = calls[callee] + 1

\* Per turn the invocations are counted in the order onBeforeTurn, completion,
\* onAfterTurn, tool dispatch, and per tool call onBeforeToolCall, callTool,
\* onAfterToolCall.
C11_CountsInOrder ==
  /\ calls["complete"] <= calls["onBeforeTurn"]
  /\ calls["onAfterTurn"] <= calls["complete"]
  /\ calls["callTool"] <= calls["onBeforeToolCall"]
  /\ calls["onAfterToolCall"] <= calls["callTool"]
  /\ pc = "complete" =>
       /\ calls["onBeforeTurn"] = turns + 1
       /\ calls["complete"] = turns + 1
       /\ calls["onAfterTurn"] = turns
  /\ pc = "onAfterTurn" => calls["onAfterTurn"] = turns + 1 /\ calls["complete"] = turns + 1
  /\ pc \in ToolDispatch => calls["onAfterTurn"] = turns + 1 /\ calls["complete"] = turns + 1

\* Where each invocation is made from.
C11_InvocationStep ==
  /\ Invokes("complete") => pc = "onBeforeTurn" /\ lastReturned' = "onBeforeTurn"
  /\ Invokes("onAfterTurn") => pc = "complete" /\ lastReturned' = "complete"
  /\ Invokes("callTool") => pc = "onBeforeToolCall" /\ lastReturned' = "onBeforeToolCall"
  /\ Invokes("onAfterToolCall") => pc = "callTool" /\ lastReturned' = "callTool"
  /\ Invokes("onBeforeToolCall") =>
       /\ pc = "forToolCalls"
       /\ calls["onAfterTurn"] = turns + 1
       /\ inFlight = {}
       /\ toolIdx = 1 => lastReturned = "onAfterTurn"
       /\ toolIdx > 1 =>
            /\ toolCalls[toolIdx - 1].result.set
            /\ lastReturned \in {"onBeforeToolCall", "onAfterToolCall", "onToolCallError"}
            /\ toolCalls[toolIdx - 1].result \in CallToolResults \cup {DisallowedResultResult}
                 => lastReturned = "onAfterToolCall"

\* C11: hook ordering within every turn: onBeforeTurn is invoked before the
\* provider completion; onAfterTurn after the completion and before any tool
\* dispatch of the turn; for each tool call onBeforeToolCall precedes its
\* callTool, and its onAfterToolCall precedes the onBeforeToolCall of the next
\* tool call.
C11_HookOrdering == []C11_CountsInOrder /\ [][C11_InvocationStep]_vars

\* onBeforeToolCall of the second tool call of the second turn, after the
\* first tool call went through callTool and onAfterToolCall.
C11_Witness ==
  /\ pc = "onBeforeToolCall"
  /\ turns = 1
  /\ toolIdx = 2
  /\ toolCalls[1].result \in CallToolResults
  /\ calls["onAfterToolCall"] >= 1

\* C12: an exception thrown by any of the five event hooks is not caught: run
\* rejects with it, returns no envelope and attaches no tool result for it.
C12_HookErrorsPropagate ==
  [][(pc \in Hooks /\ pc' # pc /\ lastReturned' = "none") =>
       /\ pc' = "thrown"
       /\ ret' = ret
       /\ calls' = calls
       /\ conversation' = conversation]_vars

\* The result of a tool call whose callTool rejected with 'tool failed'.
ToolFailedResult ==
  [content |-> <<"Error while executing tool \\\"push\\\": tool failed\\n\\nPlease try to recover and complete the task.">>,
   isError |-> TRUE, set |-> TRUE]

\* The steps run takes when callTool rejects, when onToolCallError has
\* returned, and at the tool call after the failed one.
C13_ToolFailureStep ==
  /\ (pc = "callTool" /\ pc' # pc /\ lastReturned' = "none") =>
       /\ pc' = "onToolCallError"
       /\ Invokes("onToolCallError")
       /\ ret' = ret
  /\ (pc = "onToolCallError" /\ caught = "tool failed"
      /\ lastReturned' = "onToolCallError" /\ ~aborted) =>
       /\ ToolCallsOf(assistantMessage')[toolIdx].result = ToolFailedResult
       /\ conversation'.messages[Len(conversation'.messages)] = assistantMessage'
       /\ pc' = "forToolCalls"
       /\ toolIdx' = toolIdx + 1
       /\ ret' = ret
  /\ (/\ pc = "forToolCalls"
      /\ toolIdx > 1
      /\ toolIdx <= Len(toolCalls)
      /\ toolCalls[toolIdx - 1].result = ToolFailedResult
      /\ (options.maxToolCalls = undefined \/ budget.toolCalls > 0)) =>
       /\ pc' = "onBeforeToolCall"
       /\ Invokes("onBeforeToolCall")
       /\ ret' = ret

\* C13: when callTool throws for a tool call, onToolCallError is awaited, the
\* tool call gets the result {isError: true, text: 'Error while executing tool
\* "<name>": <msg>...'}, the failure does not end the run, and the next tool
\* call of the same assistant message is dispatched like any other.
C13_ToolFailure == [][C13_ToolFailureStep]_vars

\* callTool in flight for the tool call after one whose callTool threw.
C13_Witness ==
  /\ pc = "callTool"
  /\ toolIdx = 2
  /\ toolCalls[1].result = ToolFailedResult
  /\ caught = "tool failed"

\* The result of a tool call vetoed by onBeforeToolCall.
CallDisallowed ==
  [content |-> <<"Tool call is disallowed.">>, isError |-> TRUE, set |-> TRUE]

\* The step run takes when onBeforeToolCall returns 'disallow'.
C14_DisallowStep ==
  (pc = "onBeforeToolCall" /\ lastReturned' = "onBeforeToolCall"
   /\ faults' = faults + 1 /\ ~aborted) =>
     /\ calls' = calls
     /\ ToolCallsOf(assistantMessage')[toolIdx].result = CallDisallowed
     /\ conversation'.messages[Len(conversation'.messages)] = assistantMessage'
     /\ pc' = "forToolCalls"
     /\ toolIdx' = toolIdx + 1
     /\ ret' = ret

\* callTool was invoked at most once for each tool call that was not vetoed.
C14_NoCallForDisallowed ==
  calls["callTool"] <=
    Cardinality({mi \in ToolCallsInHistory : HistoryCall(mi).result # CallDisallowed})

\* C14: when onBeforeToolCall returns 'disallow' for a tool call, callTool is
\* not invoked for it, the tool call gets the result {isError: true, text:
\* 'Tool call is disallowed.'}, and dispatch continues with the next tool call
\* of the message.
C14_DisallowedCall == []C14_NoCallForDisallowed /\ [][C14_DisallowStep]_vars

\* The second tool call of a message being dispatched after the first one
\* was vetoed.
C14_Witness ==
  /\ pc = "callTool"
  /\ toolIdx = 2
  /\ toolCalls[1].result = CallDisallowed
  /\ calls["callTool"] = 1
  /\ calls["onBeforeToolCall"] = 2

\* The result of a tool call whose result was vetoed by onAfterToolCall.
ResultDisallowed ==
  [content |-> <<"Tool result is disallowed to be reported.">>, isError |-> TRUE, set |-> TRUE]

\* The result of tool call mi = <<message, index>> in conversation c.
ResultIn(c, mi) == ToolCallsOf(SelectSeq(c.messages, IsAssistant)[mi[1]])[mi[2]].result

\* The step run takes when onAfterToolCall returns 'disallow', and what
\* becomes of a vetoed result afterwards.
C15_DisallowStep ==
  /\ (pc = "onAfterToolCall" /\ lastReturned' = "onAfterToolCall"
      /\ faults' = faults + 1 /\ ~aborted) =>
       /\ result \in CallToolResults
       /\ ToolCallsOf(assistantMessage')[toolIdx].result = ResultDisallowed
       /\ conversation'.messages[Len(conversation'.messages)] = assistantMessage'
  /\ \A mi \in ToolCallsInHistory :
       ResultIn(conversation, mi) = ResultDisallowed =>
         ResultIn(conversation', mi) = ResultDisallowed

\* C15: when onAfterToolCall returns 'disallow', the result attached to the
\* tool call in the conversation is {isError: true, text: 'Tool result is
\* disallowed to be reported.'} and the result callTool returned is never
\* attached to the conversation.
C15_DisallowedResult == [][C15_DisallowStep]_vars

\* A vetoed result of a tool call that callTool had answered without error.
C15_Witness ==
  /\ pc = "forToolCalls"
  /\ lastReturned = "onAfterToolCall"
  /\ toolIdx = 2
  /\ toolCalls[1].result = ResultDisallowed
  /\ ~result.isError
  /\ toolCalls[1].is_done

\* C16: whatever way run returns, the returned usage is the sum of the usages
\* the provider reported for every completion of the run, the one of the last
\* turn included.
C16_UsageIsSumOfCompletions == pc = "done" => ret.usage = reportedUsage

\* The budget is maxTokens less what totalUsage holds.
C17_BudgetTracksUsage ==
  pc # "idle" =>
    IF options.maxTokens = undefined THEN budget.tokens = undefined
    ELSE budget.tokens = options.maxTokens - (totalUsage.input + totalUsage.output)

\* The budget does not grow.
C17_BudgetStep ==
  (pc # "idle" /\ options.maxTokens # undefined) => budget'.tokens <= budget.tokens

\* C17: when maxTokens is set, the running token budget starts at maxTokens,
\* never increases during a run, and at every point equals maxTokens minus the
\* sum of usage.input + usage.output accumulated in totalUsage.
C17_TokenBudget == []C17_BudgetTracksUsage /\ [][C17_BudgetStep]_vars

\* The budget after the usage of two completions was charged.
C17_Witness ==
  /\ pc = "onAfterTurn"
  /\ calls["complete"] = 2
  /\ options.maxTokens # undefined
  /\ budget.tokens < options.maxTokens - 200
  /\ totalUsage.output > 0

\* The output cache after storing v under k.
OutputWith(k, v) ==
  /\ DOMAIN caches'.output = DOMAIN caches.output \cup {k}
  /\ caches'.output[k] = v
  /\ \A x \in DOMAIN caches.output \ {k} : caches'.output[x] = caches.output[x]

\* What a call of complete does, by where the fingerprint is found, and what
\* happens when the provider has answered.
C18_LookupStep ==
  /\ Invokes("complete") =>
       LET k == "sha1:" \o JSONStringify(summarizedConversation') IN
       IF k \in DOMAIN caches.input
       THEN /\ OutputWith(k, caches.input[k])
            /\ completion' = caches.input[k]
            /\ providerCalls' = providerCalls
            /\ cachePc' = "idle"
       ELSE IF k \in DOMAIN caches.output
       THEN /\ completion' = caches.output[k]
            /\ caches'.output = caches.output
            /\ providerCalls' = providerCalls
            /\ cachePc' = "idle"
       ELSE /\ providerCalls' = providerCalls + 1
            /\ cachePc' = "provider"
            /\ caches'.output = caches.output
  /\ (cachePc = "provider" /\ cachePc' = "idle") =>
       /\ completion' \in CacheCompletions
       /\ OutputWith("sha1:" \o JSONStringify(summarizedConversation), completion')
       /\ providerCalls' = providerCalls
  /\ cachePc = "provider" => providerCalls' = providerCalls

\* C18: complete(conversation) with fingerprint k: if k is in the input cache
\* the entry is copied into the output cache and returned without calling the
\* live provider; else if k is in the output cache it is returned without
\* calling the provider; otherwise the provider is called exactly once and its
\* result is stored under k in the output cache and returned.
C18_LookupProtocol == [][C18_LookupStep]_vars

\* All three branches were taken: an entry copied from the input cache, one
\* stored from the provider, and one returned from the output cache.
C18_Witness ==
  /\ cachePc = "idle"
  /\ calls["complete"] = 3
  /\ providerCalls = 1
  /\ Cardinality(DOMAIN caches.output) = 2
  /\ Cardinality(DOMAIN caches.input) = 1
  /\ key \notin DOMAIN caches.input
  /\ completion = caches.output[key]

C20_IdempotentReplay ==
  recorded.done =>
    /\ providerCalls = 0
    /\ pc = "done" =>
         /\ ret = recorded.ret
         /\ caches.output = recorded.cache
         /\ caches.input = recorded.cache

\* The replay of a run that ended with a done signal in its second turn.
C20_Witness ==
  /\ recorded.done
  /\ pc = "done"
  /\ ret.status = "ok"
  /\ ret.turns = 1
  /\ ret.usage.input > 0
  /\ Cardinality(DOMAIN caches.output) = 2
  /\ calls["complete"] = 2

\* Two conversations of the model that differ in nothing but the digits that
\* follow 'localhost:' in the task.
DifferOnlyInPort(c1, c2) ==
  \E p1, p2 \in Ports :
    /\ c1 = InitialConversation(PortTask(p1))
    /\ c2 = InitialConversation(PortTask(p2))

\* C21: two conversations that differ only in the digits following
\* 'localhost:' inside string fields have the same fingerprint, so that a
\* completion recorded with one port is found in the input cache when the
\* conversation is replayed with another port.
C21_CacheKeyStability ==
  (pc = "run" /\ calls["complete"] > 0) =>
    \A c \in CacheConversations :
      DifferOnlyInPort(c, summarizedConversation) =>
        /\ key = conversationHash(c)
        /\ Has(caches.input, conversationHash(c)) => Has(caches.input, key)

\* fetchWithTimeout has exited, by return or by throw.
FetchExited == fetchPc \in {"returned", "thrown"}

\* The caller's signal was given to the call and has aborted.
CallerAborted == fetchOptions.signal /\ signal.aborted

\* What an abort does to the request, and what the call fails with.
C22_AbortCauseStep ==
  /\ (fetchPc = "fetch" /\ timeoutId = "pending" /\ timeoutId' = "fired") =>
       /\ controller'.aborted
       /\ fetchPromise' = "AbortError: This operation was aborted"
  /\ (fetchPc = "fetch" /\ fetchOptions.signal /\ ~signal.aborted /\ signal'.aborted) =>
       /\ controller'.aborted
       /\ fetchPromise' = "AbortError: This operation was aborted"
  /\ (fetchPc = "settled" /\ fetchPc' = "thrown" /\ timeoutId = "fired" /\ ~CallerAborted) =>
       /\ controller.aborted
       /\ fetchOutcome'.kind = "throw"
       /\ fetchOutcome'.value = "Fetch timeout after " \o ToString(fetchOptions.timeout) \o "ms"
  /\ (fetchPc = "settled" /\ fetchPc' = "thrown" /\ timeoutId # "fired" /\ CallerAborted
      /\ controller.aborted) =>
       /\ fetchOutcome'.kind = "throw"
       /\ fetchOutcome'.value =
            (IF signal.reason = "undefined" THEN "AbortError: This operation was aborted"
             ELSE signal.reason)
       /\ \A timeout \in Timeouts : fetchOutcome'.value # FetchTimeoutError(timeout)

\* C22: when the timeout elapses before the response and the caller has not
\* aborted, the request is aborted and fetchWithTimeout fails with 'Fetch
\* timeout after <ms>ms'; when the caller's signal aborts during the call, the
\* request is aborted and fetchWithTimeout fails with the caller's abort
\* reason, not with the timeout text.
C22_AbortCause == [][C22_AbortCauseStep]_vars

\* A call with a timeout that failed with the reason the caller aborted with.
C22_Witness ==
  /\ fetchPc = "thrown"
  /\ fetchOptions.timeout = 5000
  /\ timeoutId = "cleared"
  /\ controller.aborted
  /\ signal.reason = "user cancelled"
  /\ fetchOutcome = [kind |-> "throw", value |-> "user cancelled"]

\* After the exit the timer is not pending and nothing listens to the
\* caller's signal.
C23_Released ==
  FetchExited => (timeoutId # "pending" /\ "abort" \notin signal.listeners)

\* After the exit no timer fires and the request's signal does not change.
C23_NoLateEffect ==
  FetchExited =>
    /\ timeoutId' = timeoutId
    /\ controller' = controller
    /\ fetchPromise' = fetchPromise
    /\ fetchOutcome' = fetchOutcome

\* C23: on every exit of fetchWithTimeout (response, timeout, caller abort,
\* other failure) the timer is cleared and the abort listener is removed from
\* the caller's signal: afterwards no timer fires and an abort of the caller
\* does not reach the finished request.
C23_Cleanup == []C23_Released /\ [][C23_NoLateEffect]_vars

\* The caller aborted after a call with a timeout and a signal had returned
\* the response.
C23_Witness ==
  /\ fetchPc = "returned"
  /\ fetchOptions.signal
  /\ fetchOptions.timeout = 5000
  /\ timeoutId = "cleared"
  /\ signal.aborted
  /\ ~controller.aborted

\* complete resolved with an error message: no content, stop reason 'error'
\* with a message, and no usage.
IsErrorCompletion(o) ==
  /\ o.kind = "return"
  /\ o.result.role = "assistant"
  /\ o.result.content = <<>>
  /\ o.result.stopReason.code = "error"
  /\ o.result.stopReason.message # ""
  /\ o.usage = [input |-> 0, output |-> 0]

\* The failures of the transport and of the response the claim is about.
FetchTimedOut ==
  /\ adapter \in {"google", "openaiCompatible"}
  /\ fetchPc = "thrown"
  /\ timeoutId = "fired"
  /\ fetchOutcome.value = "Fetch timeout after " \o ToString(fetchOptions.timeout) \o "ms"

HttpFailed == response.status # 0 /\ ~(response.status >= 200 /\ response.status < 300)

ParseFailed == responseBody.json = "SyntaxError"

EmptyCandidates == responseBody.json = "parsed" /\ Len(responseBody.candidates) = 0

\* C24: complete of every provider adapter does not throw on an HTTP failure
\* (status outside 2xx), a fetch timeout, a response without candidates or a
\* body that does not parse: it returns an assistant message with stop reason
\* {code: 'error', message}, empty content and zero usage.
C24_AdaptersDoNotThrow ==
  (adapterPc = "done" /\ (HttpFailed \/ FetchTimedOut \/ ParseFailed \/ EmptyCandidates)) =>
    IsErrorCompletion(adapterOutcome)

\* The schema of tool t as a value: its property map and its required list
\* (an absent field is the empty sequence, a present one is wrapped in one).
SchemaOf(h, t) ==
  LET inputSchema == h.schemas[h.tools[t].inputSchema]
  IN [properties |-> IF inputSchema.properties = 0 THEN <<>>
                     ELSE <<h.props[inputSchema.properties]>>,
      required |-> IF inputSchema.required = 0 THEN <<>>
                   ELSE <<h.arrays[inputSchema.required]>>]

\* How often name occurs in list.
Occurrences(list, name) == Cardinality({j \in 1..Len(list) : list[j] = name})

\* Every object that existed when run was called holds what it held then.
CallerObjectsUnchanged ==
  /\ SubSeq(heap.tools, 1, Len(snapshot.tools)) = snapshot.tools
  /\ SubSeq(heap.schemas, 1, Len(snapshot.schemas)) = snapshot.schemas
  /\ SubSeq(heap.props, 1, Len(snapshot.props)) = snapshot.props
  /\ SubSeq(heap.arrays, 1, Len(snapshot.arrays)) = snapshot.arrays

\* The i-th tool of the conversation is a new tool object with a new schema,
\* a new property map with the boolean _is_done, and a new required list.
IsWrappedCopy(i) ==
  LET t == allTools[i]
      inputSchema == heap.schemas[heap.tools[t].inputSchema]
  IN /\ t > Len(snapshot.tools)
     /\ heap.tools[t].inputSchema > Len(snapshot.schemas)
     /\ inputSchema.properties > Len(snapshot.props)
     /\ inputSchema.required > Len(snapshot.arrays)
     /\ heap.tools[t].name = heap.tools[callerTools[i]].name
     /\ "_is_done" \in DOMAIN heap.props[inputSchema.properties]
     /\ heap.props[inputSchema.properties]["_is_done"] = "boolean"

\* C25: wrapping at loop start does not mutate the caller's tools (the tool
\* objects, their inputSchema, properties and required lists hold what they
\* held), while every tool of conversation.tools has the boolean property
\* _is_done and lists '_is_done' exactly once in required.
C25_WrappingFrame ==
  wrapPc = "running" =>
    /\ CallerObjectsUnchanged
    /\ Len(allTools) = Len(callerTools)
    /\ \A i \in 1..Len(allTools) :
         /\ IsWrappedCopy(i)
         /\ Occurrences(SchemaOf(heap, allTools[i]).required[1], "_is_done") = 1

\* C26: wrapping a tool that is already wrapped yields the schema of the
\* wrapped tool: the same properties and the same required list.
C26_WrappingIdempotent ==
  wrapPc = "running" =>
    \A i \in 1..Len(callerTools) :
      callerTools[i] \in wrappedTools =>
        SchemaOf(heap, allTools[i]) = SchemaOf(heap, callerTools[i])

\* The view of the turn is what the provider is asked to complete.
ViewInUse == options.summarize /\ pc \in {"onBeforeTurn", "complete"}

\* The recap of a conversation without turns to collapse: the task under its
\* heading.
TaskRecap == [role |-> "user", content |-> "## Task" \o "\\n" \o task]

\* C27: with summarize = true the view sent to the provider on every turn is
\* one synthetic user recap followed by the most recent assistant message if
\* there is one (one message on the first turn, two on every later turn),
\* with the systemPrompt and the tools of the conversation.
C27_SummarizedView ==
  ViewInUse =>
    /\ summarizedConversation.systemPrompt = conversation.systemPrompt
    /\ summarizedConversation.tools = conversation.tools
    /\ Len(summarizedConversation.messages) = IF turns = 0 THEN 1 ELSE 2
    /\ summarizedConversation.messages[1].role = "user"
    /\ summarizedConversation.messages[1].content # conversation.messages[1].content
    /\ Len(AssistantMessages) <= 1 => summarizedConversation.messages[1] = TaskRecap
    /\ turns > 0 =>
         /\ summarizedConversation.messages[2].role = "assistant"
         /\ summarizedConversation.messages[2] =
              conversation.messages[Len(conversation.messages)]
         /\ Len(AssistantMessages) = turns

\* The view of the second turn, after a turn with two answered tool calls.
C27_Witness ==
  /\ options.summarize
  /\ pc = "complete"
  /\ turns = 1
  /\ Len(summarizedConversation.messages) = 2
  /\ Len(ToolCallsOf(summarizedConversation.messages[2])) = 2
  /\ ToolCallsOf(summarizedConversation.messages[2])[2].result.set

\* C28 as stated: for a conversation with at most one assistant message the
\* message list of the summarizer's output is the message list of the
\* conversation.
C28_SummarizerFixedPoint ==
  (ViewInUse /\ Len(AssistantMessages) <= 1) =>
    summarizedConversation.messages = conversation.messages

\* C28: for a conversation with at most one assistant message the output of
\* the summarizer has the messages of the conversation in number, roles and
\* order, its assistant message (if any) is the one of the conversation, and
\* its user message is the task under the heading '## Task', without a
\* history section.
C28_SummarizerFixedPointAmended ==
  (ViewInUse /\ Len(AssistantMessages) <= 1) =>
    /\ Len(summarizedConversation.messages) = Len(conversation.messages)
    /\ \A i \in 1..Len(conversation.messages) :
         summarizedConversation.messages[i].role = conversation.messages[i].role
    /\ conversation.messages[1].content = task
    /\ summarizedConversation.messages[1].content = "## Task" \o "\\n" \o task
    /\ \A i \in 2..Len(conversation.messages) :
         summarizedConversation.messages[i] = conversation.messages[i]

\* The summary of a conversation with one assistant message, which carries
\* the hint that a tool call is expected.
C28_Witness ==
  /\ options.summarize
  /\ pc = "onBeforeTurn"
  /\ Len(AssistantMessages) = 1
  /\ summarizedConversation.messages[2].toolError # ""

\* The parts of the response that toContentPart keeps.
IsParsedPart(part) == part.text # "" \/ part.functionCall # <<>>
ParsedParts == SelectSeq(geminiParts, IsParsedPart)

\* The model content of the serialized message.
ModelContent == geminiContents[1]

\* C29: every text or tool-call part parsed from a Google response keeps its
\* thoughtSignature as googleThoughtSignature for as long as the message is in
\* the conversation, whatever the scheduler attaches to the message, and
\* toGeminiContent yields a part in the same position with the identical
\* thoughtSignature.
C29_EchoRoundTrip ==
  /\ echoPc = "conversation" =>
       /\ Len(echoMessage.content) = Len(ParsedParts)
       /\ \A i \in 1..Len(ParsedParts) :
            echoMessage.content[i].googleThoughtSignature = ParsedParts[i].thoughtSignature
  /\ geminiContents # <<>> =>
       /\ ModelContent.role = "model"
       /\ Len(ModelContent.parts) = Len(ParsedParts)
       /\ \A i \in 1..Len(ParsedParts) :
            /\ ModelContent.parts[i].thoughtSignature = ParsedParts[i].thoughtSignature
            /\ ModelContent.parts[i].text = ParsedParts[i].text
            /\ ModelContent.parts[i].functionCall = ParsedParts[i].functionCall

\* A response with a signed text part and a signed function call, serialized
\* after the scheduler attached the result of the call.
C29_Witness ==
  /\ echoPc = "conversation"
  /\ Len(geminiParts) = 2
  /\ geminiParts[1].thoughtSignature = "sigA"
  /\ geminiParts[1].text # ""
  /\ geminiParts[2].thoughtSignature = "sigB"
  /\ geminiParts[2].functionCall # <<>>
  /\ Len(geminiContents) = 2
  /\ geminiContents[2].role = "function"
  /\ geminiContents[1].parts[2].thoughtSignature = "sigB"

\* The last n assistant messages of the conversation, one for each of the
\* last n turns.
LastTurns(n) ==
  SubSeq(AssistantMessages, Len(AssistantMessages) - n + 1, Len(AssistantMessages))

\* C30: run returns 'Failed to perform action after <N> tool call retries' only
\* when each of the last maxToolCallRetries + 1 turns contained at least one
\* errored tool result, the retry counter being reset by any turn whose tool
\* results are all non-error.
C30_ConsecutiveErroredTurns ==
  (options.maxToolCallRetries # undefined
   /\ Returned("error", RetriesError(options.maxToolCallRetries))) =>
    /\ Len(AssistantMessages) >= options.maxToolCallRetries + 1
    /\ \A i \in 1..(options.maxToolCallRetries + 1) :
         HasErrors(ToolCallsOf(LastTurns(options.maxToolCallRetries + 1)[i]))

\* A turn begins: the head of the turn loop with turns left.
TopOfTurn == pc = "forTurns" /\ turns < maxTurns

\* C31: with the token budget set and at or below zero at the top of a turn,
\* run returns {status: 'error', error: 'Budget tokens <maxTokens> exhausted'}
\* with the configured maxTokens, without summarizing, without invoking
\* onBeforeTurn and without calling the provider.
C31_BudgetExhausted ==
  [][(TopOfTurn /\ budget.tokens # undefined /\ budget.tokens <= 0) =>
       /\ pc' = "done"
       /\ ret'.status = "error"
       /\ ret'.error = "Budget tokens " \o ToString(options.maxTokens) \o " exhausted"
       /\ ret'.turns = turns
       /\ calls' = calls
       /\ summarizedConversation' = summarizedConversation]_vars

\* The assistant messages without a tool call carry the hint, the others no
\* toolError.
HintOnEmptyMessages ==
  \A i \in 1..Len(AssistantMessages) :
    AssistantMessages[i].toolError =
      IF Len(ToolCallsOf(AssistantMessages[i])) = 0
      THEN "Error: tool call is expected in every assistant message. Call the \\\"report_result\\\" tool when the task is complete."
      ELSE ""

\* The step taken after onAfterTurn for a message without tool calls.
C32_EmptyMessageStep ==
  (/\ pc = "onAfterTurn"
   /\ lastReturned' = "onAfterTurn"
   /\ ~aborted
   /\ Len(ToolCallsOf(assistantMessage)) = 0) =>
     /\ Len(conversation'.messages) = Len(conversation.messages) + 1
     /\ conversation'.messages[Len(conversation'.messages)].content = assistantMessage.content
     /\ conversation'.messages[Len(conversation'.messages)].toolError # ""
     /\ calls' = calls
     /\ budget' = budget
     /\ turns' = turns + 1
     /\ pc' = "forTurns"

\* C32: when an assistant message contains zero tool calls, its toolError is
\* set to the fixed hint, no callTool and no tool hook is invoked, the
\* toolCalls and toolCallRetries budgets are left unchanged, and the loop goes
\* on to the next turn, which counts against maxTurns.
C32_EmptyToolCallsRecovery == []HintOnEmptyMessages /\ [][C32_EmptyMessageStep]_vars

\* A text-only answer in the first turn of a run with a tool-call and a retry
\* budget; the second turn is about to begin.
C32_Witness ==
  /\ pc = "forTurns"
  /\ turns = 1
  /\ Len(AssistantMessages) = 1
  /\ Len(ToolCallsOf(AssistantMessages[1])) = 0
  /\ AssistantMessages[1].toolError # ""
  /\ budget.toolCalls = MaxToolCallsBound
  /\ budget.toolCallRetries = MaxRetriesBound
  /\ calls["onBeforeToolCall"] = 0

\* The turns begun so far: onBeforeTurn is invoked once in every turn that
\* gets past the budget check at its top.
TurnsBegun == calls["onBeforeTurn"]

\* C33: the turns field of the returned envelope is the zero-based index of
\* the turn on which the run ended (the number of turns completed before it)
\* for ok, break and budget or provider error returns, it is maxTurns when the
\* turn limit is exhausted, and it never exceeds maxTurns.
C33_TurnsField ==
  pc = "done" =>
    /\ ret.turns <= maxTurns
    /\ IF ret.error = "Failed to perform step, max attempts reached"
       THEN ret.turns = maxTurns /\ TurnsBegun = maxTurns
       ELSE IF ret.error = "Budget tokens " \o ToString(options.maxTokens) \o " exhausted"
       THEN ret.turns = TurnsBegun
       ELSE ret.turns = TurnsBegun - 1

\* A run that ends with the done signal in its second turn, after a turn with
\* an errored tool result.
C33_Witness ==
  /\ pc = "done"
  /\ ret.status = "ok"
  /\ ret.turns = 1
  /\ TurnsBegun = 2
  /\ erroredTurns = 1

\* C34: whenever the provider is called with a token budget set, the maxTokens
\* passed to it is the remaining budget less the input estimate and is
\* strictly positive; without a budget no maxTokens is passed.
C34_PositiveMaxTokens ==
  pc = "complete" =>
    IF budget.tokens = undefined THEN completeMaxTokens = undefined
    ELSE /\ completeMaxTokens = budget.tokens - Len(JSONStringify(ConversationView)) \div 4
         /\ completeMaxTokens > 0

\* The completion of the second turn, requested with what the first turn and
\* the estimate of the second left of the budget.
C34_Witness ==
  /\ pc = "complete"
  /\ calls["complete"] = 2
  /\ completeMaxTokens # undefined
  /\ completeMaxTokens > 0
  /\ completeMaxTokens < options.maxTokens - 200

\* With cancellation requested no callTool and no completion is started.
C35_NoNewWorkStep ==
  aborted =>
    /\ calls'["callTool"] = calls["callTool"]
    /\ calls'["complete"] = calls["complete"]
    /\ inFlight' \subseteq inFlight

\* C35: once cancellation has been requested on the abortController, run
\* starts no new callTool invocation and no new provider completion, and the
\* run ends (a run that has ended stays so, and every run ends).
C35_NoWorkAfterAbort ==
  [][C35_NoNewWorkStep /\ (Terminated => Terminated')]_vars /\ <>Terminated

\* abort() during the completion of the second turn: onAfterTurn is still
\* invoked, then run returns 'break'.
C35_Witness ==
  /\ pc = "done"
  /\ ret.status = "break"
  /\ abortAt = "complete"
  /\ calls["complete"] = 2
  /\ calls["onAfterTurn"] = 2
  /\ calls["callTool"] = 1

\* The tool call being dispatched is a done call whose result onAfterToolCall
\* vetoes.
DoneResultVetoed ==
  /\ pc = "onAfterToolCall"
  /\ lastReturned' = "onAfterToolCall"
  /\ faults' = faults + 1
  /\ ~aborted
  /\ ToolCallsOf(assistantMessage)[toolIdx].is_done

\* A done call of the message carries the result of the veto.
HasVetoedDoneCall(message) ==
  \E i \in 1..Len(ToolCallsOf(message)) :
    /\ ToolCallsOf(message)[i].is_done
    /\ ToolCallsOf(message)[i].result = ResultDisallowed

\* The veto leaves the run going with an error result on the tool call, and
\* the retry accounting at the end of such a turn charges a retry.
C36_VetoStep ==
  /\ DoneResultVetoed =>
       /\ pc' = "forToolCalls"
       /\ ret' = ret
       /\ ToolCallsOf(assistantMessage')[toolIdx].result.set
       /\ ToolCallsOf(assistantMessage')[toolIdx].result.isError
       /\ conversation'.messages[Len(conversation'.messages)] = assistantMessage'
  /\ (/\ pc = "forToolCalls"
      /\ toolIdx > Len(ToolCallsOf(assistantMessage))
      /\ HasVetoedDoneCall(assistantMessage)
      /\ budget.toolCallRetries # undefined) =>
       /\ budget'.toolCallRetries = budget.toolCallRetries - 1
       /\ IF budget.toolCallRetries = 0
          THEN /\ pc' = "done"
               /\ ret'.status = "error"
               /\ ret'.error = "Failed to perform action after "
                               \o ToString(options.maxToolCallRetries) \o " tool call retries"
          ELSE pc' = "forTurns"

\* The result returned with status 'ok' is not one that was vetoed.
C36_OkNotVetoed ==
  (pc = "done" /\ ret.status = "ok") =>
    /\ ToolCallsOf(assistantMessage)[toolIdx].result = ret.result
    /\ ~ret.result.isError
    /\ lastReturned = "onAfterToolCall"

\* C36: a tool call with _is_done = true whose result onAfterToolCall vetoes
\* does not end the run: run does not return status 'ok' for it, the tool call
\* carries an error result, and the turn counts as errored in the retry
\* accounting.
C36_VetoedDoneCall == []C36_OkNotVetoed /\ [][C36_VetoStep]_vars

\* A run without retries left that returns the retries error for a turn
\* whose only error is the vetoed result of a done call that callTool had
\* answered without error.
C36_Witness ==
  /\ pc = "done"
  /\ ret.status = "error"
  /\ options.maxToolCallRetries = 0
  /\ budget.toolCallRetries = 0 - 1
  /\ Len(ToolCallsOf(assistantMessage)) = 1
  /\ HasVetoedDoneCall(assistantMessage)
  /\ ~result.isError
  /\ calls["callTool"] = 1

\* fetchWithTimeout failed with the timeout text.
FailedWithTimeoutText ==
  /\ fetchPc = "thrown"
  /\ fetchOutcome.kind = "throw"
  /\ \E timeout \in Timeouts : fetchOutcome.value = FetchTimeoutError(timeout)

\* C37: fetchWithTimeout fails with 'Fetch timeout after <ms>ms' only when a
\* timeout was configured and its timer fired; a failure of fetch that is not
\* an abort (a network error) is not reported as a timeout.
C37_TimeoutOnlyWhenFired ==
  FailedWithTimeoutText =>
    /\ fetchOptions.timeout # undefined
    /\ fetchOptions.timeout # 0
    /\ timeoutId = "fired"
    /\ fetchPromise # NetworkError

\* The caller's signal had aborted before fetchWithTimeout was called with it.
CalledWithAbortedSignal ==
  /\ fetchPc = "idle"
  /\ signal.aborted
  /\ fetchPc' = "fetch"
  /\ fetchOptions'.signal

\* A call made with an aborted signal aborts the request, and a call whose
\* signal was aborted before the response does not return the response.
C38_PreAbortedStep ==
  /\ CalledWithAbortedSignal => controller'.aborted
  /\ (fetchPc = "settled" /\ CallerAborted /\ FetchExited') =>
       /\ fetchOutcome'.kind = "throw"
       /\ fetchOutcome'.value =
            (IF signal.reason = "undefined" THEN fetchPromise ELSE signal.reason)

\* C38: when the caller's signal is already aborted at the time
\* fetchWithTimeout is called, the request is aborted and the call fails with
\* the caller's abort reason; it never returns a Response.
C38_PreAborted == [][C38_PreAbortedStep]_vars

\* No two calls in flight wait for the live provider with the same
\* fingerprint.
OneLiveCallPerKey ==
  \A i, j \in OverlapCalls :
    (i # j /\ overlap[i].pc = "provider" /\ overlap[j].pc = "provider") =>
      overlap[i].key # overlap[j].key

\* An entry of the output cache that did not come from the input cache stays
\* as it was written.
FirstEntryKept ==
  \A k \in DOMAIN caches.output :
    ~Has(caches.input, k) => (Has(caches'.output, k) /\ caches'.output[k] = caches.output[k])

\* C39: when two calls of complete with the same fingerprint, absent from both
\* caches, are in flight at once on the same caches, the live provider is
\* called only once for that fingerprint and the output-cache entry written
\* first is not overwritten by the second call.
C39_OneProviderCall == []OneLiveCallPerKey /\ [][(pc = "run") => FirstEntryKept]_vars

\* The history: the task message first, then assistant messages only, one
\* per turn completed so far when a turn begins.
HistoryKept ==
  pc # "idle" =>
    /\ Len(conversation.messages) >= 1
    /\ conversation.messages[1] = UserMessage(task)
    /\ \A i \in 2..Len(conversation.messages) : conversation.messages[i].role = "assistant"
    /\ Len(AssistantMessages) = Len(conversation.messages) - 1
    /\ pc = "forTurns" => Len(conversation.messages) = 1 + turns
    /\ Len(conversation.messages) \in {1 + turns, 2 + turns}

\* The last assistant message of the view is the last message of the
\* history, with the results its tool calls were given after it was pushed.
ViewSeesResults ==
  (ViewInUse /\ turns > 0) =>
    LET last == summarizedConversation.messages[Len(summarizedConversation.messages)] IN
      /\ last = conversation.messages[Len(conversation.messages)]
      /\ last = assistantMessage
      /\ \A i \in 1..Len(ToolCallsOf(last)) : ToolCallsOf(last)[i].result.set

\* Computing the view leaves the conversation as it is, and a step of the
\* run appends at most one message and leaves every message but the last as
\* it is.
C40_HistoryStep ==
  /\ (pc = "forTurns" /\ options.summarize) => conversation' = conversation
  /\ pc \notin {"idle", "done"} =>
       /\ Len(conversation'.messages) \in {Len(conversation.messages),
                                          Len(conversation.messages) + 1}
       /\ \A i \in 1..(Len(conversation.messages) - 1) :
            conversation'.messages[i] = conversation.messages[i]
       /\ Len(conversation'.messages) = Len(conversation.messages) + 1 =>
            /\ pc = "onAfterTurn"
            /\ conversation'.messages[Len(conversation.messages)] =
                 conversation.messages[Len(conversation.messages)]

\* C40: summarization only changes the view sent to the provider: computing
\* the view does not modify the conversation, whose messages keep the task
\* message and every assistant message appended so far (one more per
\* completed turn), and the last assistant message of the view is the same
\* message as in the history, so that results attached to it later are seen
\* in the next view.
C40_ViewOnly == []HistoryKept /\ []ViewSeesResults /\ [][C40_HistoryStep]_vars

\* The view of the second turn of a summarizing run: the history holds the
\* task and the assistant message of the first turn, and the view shows the
\* error result that message was given after it was pushed.
C40_Witness ==
  /\ options.summarize
  /\ pc = "complete"
  /\ turns = 1
  /\ conversation.messages[1] = UserMessage(task)
  /\ Len(conversation.messages) = 2
  /\ Len(summarizedConversation.messages) = 2
  /\ Len(ToolCallsOf(summarizedConversation.messages[2])) >= 1
  /\ ToolCallsOf(summarizedConversation.messages[2])[1].result.isError

====
